---- MODULE Spec2Model ----
(***************************************************************************)
(* Model of the websocket bridge of surfing-bros-mcp (package wsbridge):   *)
(* the session registry, the pending (correlation) table, the per-session  *)
(* read loop with deliver, SendCommand, ListSessions and Count, with the   *)
(* bridge RWMutex and the per-session mutex made explicit.                 *)
(*                                                                         *)
(* Timestamps (ConnectedAt, LastSeen) and the request metadata of a        *)
(* session carry no control flow and are left out; the lock taken to       *)
(* update LastSeen is kept.                                                *)
(***************************************************************************)
EXTENDS Integers, Sequences, FiniteSets, TLC

\* ---------------------------------------------------------------- bounds
MaxSessions == 2      \* websocket connections accepted over a run
NumCallers  == 2      \* goroutines calling SendCommand, one call each
MaxRegistry == 3      \* connections accepted over a run of the registry alone

SessionIds == 1..MaxSessions
RegistryIds == 1..MaxRegistry
Callers    == 1..NumCallers
CmdIds     == 1..NumCallers   \* the command ids in use

\* the goroutine of the admin surface that calls ListSessions and Count
Listers == {"admin"}

\* "" as a session id / command id, nil as a channel, an unlocked mutex
NoSession == 0
NoChan    == 0
Unlocked  == 0

\* make(chan protocol.Response, 1)
ChanCap == 1

\* what Conn.ReadMessage can hand to readLoop: a frame that does not parse,
\* or a Response with any id (0 stands for the empty id)
Malformed == [kind |-> "malformed", id |-> 0]
Frames    == {Malformed} \cup [kind : {"response"}, id : 0..NumCallers]
NoFrame   == [kind |-> "none", id |-> 0]

\* the zero protocol.Response{} returned together with an error
NoResponse == [id |-> 0]

VARIABLES
  sessions,    \* Bridge.sessions: the ids that are keys of the map
  activeID,    \* Bridge.activeID
  pending,     \* Bridge.pending: command id -> channel, NoChan when absent
  lastID,      \* number of uuids handed out by HandleWS so far
  smu,         \* Session.mu: the caller that holds it, or Unlocked
  bmuReaders,  \* goroutines holding Bridge.mu.RLock across steps
  wwait,       \* the goroutine inside Bridge.mu.Lock waiting for readers to leave
  rl,          \* per session: the HandleWS/readLoop goroutine and its Conn
  chans,       \* the channels made by SendCommand, by caller
  call,        \* per caller: the SendCommand activation
  wire,        \* per session: the command ids written to its Conn
  ls,          \* per lister: the ListSessions/Count/DisconnectSession activation
  panicked,    \* some goroutine panicked (send on closed channel, double close)
  cl           \* the browser client's work around one call: its input and result

vars == <<sessions, activeID, pending, lastID, smu, bmuReaders, wwait, rl,
          chans, call, wire, ls, panicked, cl>>

registryVars == <<sessions, activeID, lastID>>
lockVars     == <<smu, bmuReaders, wwait>>
callVars     == <<call, wire>>

\* goroutine names, for the lock bookkeeping
CallerG(c) == <<"caller", c>>
ReaderG(s) == <<"reader", s>>
AccepterG  == <<"accept", 0>>
NoWriter   == <<"none", 0>>

IdleCall == [pc |-> "idle", id |-> 0, target |-> NoSession, sess |-> NoSession,
             ch |-> NoChan, result |-> "none", resp |-> NoResponse]

IdleReader == [pc |-> "none", frame |-> NoFrame, ch |-> NoChan, conn |-> "none"]

IdleLister == [pc |-> "idle", todo |-> {}, cur |-> NoSession, out |-> {},
               count |-> -1, req |-> NoSession, err |-> "none"]

\* the client before it is given anything to do
IdleClient == [fn |-> "none"]

NewChan == [buf |-> <<>>, closed |-> FALSE, sends |-> 0]

Init ==
  /\ sessions = {}
  /\ activeID = NoSession
  /\ pending = [i \in CmdIds |-> NoChan]
  /\ lastID = 0
  /\ smu = [s \in SessionIds |-> Unlocked]
  /\ bmuReaders = {}
  /\ wwait = NoWriter
  /\ rl = [s \in SessionIds |-> IdleReader]
  /\ chans = [k \in Callers |-> NewChan]
  /\ call = [c \in Callers |-> IdleCall]
  /\ wire = [s \in SessionIds |-> {}]
  /\ ls = [l \in Listers |-> IdleLister]
  /\ panicked = FALSE
  /\ cl = IdleClient

\* ------------------------------------------------------- sync.RWMutex
\* Writers hold Bridge.mu only inside one atomic step, so no writer is ever
\* seen holding it.  Lock() first queues behind the other writers, then
\* announces itself, which turns new readers away, and then waits for the
\* readers inside to leave: wwait is the writer that has announced itself.
HasReaders == bmuReaders # {}

\* Bridge.mu.Lock() returns for goroutine g
CanLock(g) == ~HasReaders /\ wwait \in {NoWriter, g}

\* Bridge.mu.RLock() returns: no writer has announced itself
CanRLock == wwait = NoWriter

\* a session mutex that never makes anyone wait
CanLockSessionAlways(s) == TRUE

\* session.mu can be taken
CanLockSession(s) == smu[s] = Unlocked

\* The goroutines standing at a Bridge.mu.Lock() call
LockSites ==
  {ReaderG(s) : s \in {x \in SessionIds : rl[x].pc \in {"deliver", "disc"}}}
  \cup {CallerG(c) : c \in {x \in Callers :
          call[x].pc \in {"register", "write_failed", "timeout_cleanup"}}}

\* A goroutine in Bridge.mu.Lock() announces itself and waits for the readers.
WriterWait(g) ==
  /\ g \in LockSites
  /\ HasReaders
  /\ wwait = NoWriter
  /\ wwait' = g
  /\ UNCHANGED <<registryVars, pending, smu, bmuReaders, rl, chans, callVars,
                 ls, panicked, cl>>

\* ----------------------------------------------------------- HandleWS
\* a connect that makes the new session active only when none is
ConnectFirstWins(n) ==
  /\ lastID < n
  /\ CanLock(AccepterG)
  /\ LET id == lastID + 1 IN
       /\ lastID' = id
       /\ sessions' = sessions \cup {id}
       /\ activeID' = IF activeID = NoSession THEN id ELSE activeID
       /\ rl' = [rl EXCEPT ![id] = [IdleReader EXCEPT !.pc = "read", !.conn = "open"]]
  /\ UNCHANGED <<pending, lockVars, chans, callVars, ls, panicked, cl>>

\* Upgrade succeeded: register the session under a fresh uuid, make it active.
\* At most n connections are accepted over a run.
ConnectUpTo(n) ==
  /\ lastID < n
  /\ CanLock(AccepterG)
  /\ LET id == lastID + 1 IN
       /\ lastID' = id
       /\ sessions' = sessions \cup {id}
       /\ activeID' = id
       /\ rl' = [rl EXCEPT ![id] = [IdleReader EXCEPT !.pc = "read", !.conn = "open"]]
  /\ UNCHANGED <<pending, lockVars, chans, callVars, ls, panicked, cl>>

Connect == ConnectUpTo(MaxSessions)

\* a disconnect that leaves the active pointer where it was
ReassignKeepsPointer(remaining) == {activeID}

\* a disconnect that only clears the active pointer
ReassignClears(remaining) == {NoSession}

\* `for sid := range b.sessions { b.activeID = sid; break }`: Go leaves the
\* iteration order of a map unspecified, so any remaining key can come first.
ReassignActive(remaining) ==
  IF remaining = {} THEN {NoSession} ELSE remaining

\* readLoop returned: delete the session, move activeID off it.
Disconnect(s) ==
  /\ rl[s].pc = "disc"
  /\ CanLock(ReaderG(s))
  /\ sessions' = sessions \ {s}
  /\ IF activeID = s
       THEN activeID' \in ReassignActive(sessions \ {s})
       ELSE activeID' = activeID
  /\ rl' = [rl EXCEPT ![s].pc = "closing"]
  /\ wwait' = NoWriter
  /\ UNCHANGED <<lastID, pending, smu, bmuReaders, chans, callVars, ls,
                 panicked, cl>>

\* conn.Close() after the registry was updated
CloseConn(s) ==
  /\ rl[s].pc = "closing"
  /\ rl' = [rl EXCEPT ![s].pc = "gone", ![s].conn = "closed"]
  /\ UNCHANGED <<registryVars, pending, lockVars, chans, callVars, ls,
                 panicked, cl>>

\* the session's Conn has been Close()d
ConnClosed(s) == rl[s].conn = "closed"

\* ----------------------------------------------------------- readLoop
\* Conn.ReadMessage returned a frame: whatever the peer chose to send.
ReadMessage(s) ==
  /\ rl[s].pc = "read"
  /\ ~ConnClosed(s)
  /\ \E f \in Frames : rl' = [rl EXCEPT ![s].pc = "seen", ![s].frame = f]
  /\ UNCHANGED <<registryVars, pending, lockVars, chans, callVars, ls,
                 panicked, cl>>

\* Conn.ReadMessage returned an error (peer closed, transport error)
ReadError(s) ==
  /\ rl[s].pc = "read"
  /\ rl' = [rl EXCEPT ![s].pc = "disc"]
  /\ UNCHANGED <<registryVars, pending, lockVars, chans, callVars, ls,
                 panicked, cl>>

\* a read loop that gives up on a frame it cannot use
SeenClosesOnJunk(s) ==
  /\ rl[s].pc = "seen"
  /\ CanLockSession(s)
  /\ IF rl[s].frame.kind = "malformed" \/ rl[s].frame.id = 0
       THEN rl' = [rl EXCEPT ![s].pc = "disc", ![s].frame = NoFrame]
       ELSE rl' = [rl EXCEPT ![s].pc = "deliver"]
  /\ UNCHANGED <<registryVars, pending, lockVars, chans, callVars, ls,
                 panicked, cl>>

\* session.mu.Lock(); LastSeen = now; Unlock(); then json.Unmarshal and the
\* empty-id test decide whether the frame goes to deliver.
Seen(s) ==
  /\ rl[s].pc = "seen"
  /\ CanLockSession(s)
  /\ IF rl[s].frame.kind = "malformed" \/ rl[s].frame.id = 0
       THEN rl' = [rl EXCEPT ![s].pc = "read", ![s].frame = NoFrame]
       ELSE rl' = [rl EXCEPT ![s].pc = "deliver"]
  /\ UNCHANGED <<registryVars, pending, lockVars, chans, callVars, ls,
                 panicked, cl>>

\* ------------------------------------------------------------ deliver
\* deliver that looks the slot up and leaves it in the table
DeliverTableKeepsSlot(id) == pending

\* The table as deliver's critical section leaves it after looking up id.
DeliverTable(id) ==
  IF pending[id] # NoChan THEN [pending EXCEPT ![id] = NoChan] ELSE pending

\* a lookup that takes whichever slot is pending, whatever its id
LookupAnySlot(id) ==
  IF \E i \in CmdIds : pending[i] # NoChan
    THEN pending[CHOOSE i \in CmdIds : pending[i] # NoChan]
    ELSE NoChan

\* ch := b.pending[resp.ID]
Lookup(id) == pending[id]

\* a deliver without the `ch != nil` test: it sends whatever it looked up
DeliverNoNilCheck(s) ==
  /\ rl[s].pc = "deliver"
  /\ CanLock(ReaderG(s))
  /\ pending' = [pending EXCEPT ![rl[s].frame.id] = NoChan]
  /\ rl' = [rl EXCEPT ![s].pc = "send", ![s].ch = Lookup(rl[s].frame.id)]
  /\ wwait' = NoWriter
  /\ UNCHANGED <<registryVars, smu, bmuReaders, chans, callVars, ls, panicked, cl>>

\* b.mu.Lock(); ch := b.pending[id]; if ch != nil { delete }; b.mu.Unlock()
Deliver(s) ==
  /\ rl[s].pc = "deliver"
  /\ CanLock(ReaderG(s))
  /\ LET id == rl[s].frame.id
         ch == Lookup(id) IN
       /\ pending' = DeliverTable(id)
       /\ IF ch # NoChan
            THEN rl' = [rl EXCEPT ![s].pc = "send", ![s].ch = ch]
            ELSE rl' = [rl EXCEPT ![s].pc = "read", ![s].frame = NoFrame]
  /\ wwait' = NoWriter
  /\ UNCHANGED <<registryVars, smu, bmuReaders, chans, callVars, ls, panicked, cl>>

\* `ch <- resp` on a channel of capacity 1: panics when closed, blocks while
\* the buffer is full, blocks for ever on a nil channel.
Send(s) ==
  /\ rl[s].pc = "send"
  /\ rl[s].ch # NoChan
  /\ LET ch == rl[s].ch IN
       IF chans[ch].closed
         THEN /\ panicked' = TRUE
              /\ UNCHANGED <<chans, rl>>
         ELSE /\ Len(chans[ch].buf) < ChanCap
              /\ chans' = [chans EXCEPT
                   ![ch].buf = Append(@, [id |-> rl[s].frame.id]),
                   ![ch].sends = @ + 1]
              /\ rl' = [rl EXCEPT ![s].pc = "close"]
              /\ UNCHANGED panicked
  /\ UNCHANGED <<registryVars, pending, lockVars, callVars, ls, cl>>

\* `close(ch)`: panics on a closed channel
CloseChan(s) ==
  /\ rl[s].pc = "close"
  /\ LET ch == rl[s].ch IN
       IF chans[ch].closed
         THEN /\ panicked' = TRUE
              /\ UNCHANGED <<chans, rl>>
         ELSE /\ chans' = [chans EXCEPT ![ch].closed = TRUE]
              /\ rl' = [rl EXCEPT ![s].pc = "read", ![s].frame = NoFrame,
                                  ![s].ch = NoChan]
              /\ UNCHANGED panicked
  /\ UNCHANGED <<registryVars, pending, lockVars, callVars, ls, cl>>

\* -------------------------------------------------------- SendCommand
\* activeSession: the session the active pointer names, NoSession for nil
activeSession ==
  IF activeID \in sessions THEN activeID ELSE NoSession

\* a sessionByID that falls back to the active session for an unknown id
sessionByIDFallsBack(id) ==
  IF id \in sessions THEN id ELSE activeSession

\* a sessionByID that hands back a named session without looking it up
sessionByIDUnchecked(id) ==
  IF id = NoSession THEN activeSession ELSE id

\* sessionByID: the named session, the active one for "", NoSession for nil
sessionByID(id) ==
  IF id = NoSession THEN activeSession
  ELSE IF id \in sessions THEN id ELSE NoSession

\* SendCommand returns (resp, err): what the caller is left with
Return(c, result, resp) ==
  [IdleCall EXCEPT !.pc = "done", !.id = call[c].id, !.result = result,
                   !.resp = resp]

\* A goroutine calls SendCommand(ctx, cmd) with cmd.ID = id: sessionByID
\* under RLock, json.Marshal(cmd), make(chan).  The command may name a
\* session (one of targets) and its payload may fail to marshal.
Begin(c, id, targets) ==
  /\ call[c].pc = "idle"
  /\ CanRLock
  /\ \E target \in targets, marshalOk \in BOOLEAN :
       LET s  == sessionByID(target)
           c0 == [IdleCall EXCEPT !.id = id, !.target = target]
       IN  call' = [call EXCEPT ![c] =
             IF s = NoSession
               THEN [c0 EXCEPT !.pc = "done", !.result = "no_session"]
             ELSE IF ~marshalOk
               THEN [c0 EXCEPT !.pc = "done", !.result = "marshal_error"]
               ELSE [c0 EXCEPT !.pc = "register", !.sess = s, !.ch = c]]
  /\ UNCHANGED <<registryVars, pending, lockVars, rl, chans, wire, ls,
                 panicked, cl>>

\* Callers that give every command its own id (uuid.New in makeCommand) and
\* address any session or none
BeginFresh(c) == Begin(c, c, {NoSession} \cup SessionIds)

\* Callers that give every command its own id and address, by id, the
\* session numbered as they are: concurrent calls to different sessions
BeginOwn(c) == Begin(c, c, {c} \cap SessionIds)

\* Callers that pass SendCommand commands carrying one and the same id
BeginSameId(c) == Begin(c, 1, {NoSession} \cup SessionIds)

\* a SendCommand that goes on to the write without registering its slot
RegisterSkipsSlot(c) ==
  /\ call[c].pc = "register"
  /\ CanLock(CallerG(c))
  /\ chans' = [chans EXCEPT ![call[c].ch] = NewChan]
  /\ pending' = pending
  /\ call' = [call EXCEPT ![c].pc = "lock_session", ![c].target = NoSession]
  /\ wwait' = NoWriter
  /\ UNCHANGED <<registryVars, smu, bmuReaders, rl, wire, ls, panicked, cl>>

\* b.mu.Lock(); b.pending[cmd.ID] = ch; b.mu.Unlock()
\* cmd.SessionID is not read again once the session is resolved: the record
\* drops it here.
Register(c) ==
  /\ call[c].pc = "register"
  /\ CanLock(CallerG(c))
  /\ chans' = [chans EXCEPT ![call[c].ch] = NewChan]
  /\ pending' = [pending EXCEPT ![call[c].id] = call[c].ch]
  /\ call' = [call EXCEPT ![c].pc = "lock_session", ![c].target = NoSession]
  /\ wwait' = NoWriter
  /\ UNCHANGED <<registryVars, smu, bmuReaders, rl, wire, ls, panicked, cl>>

\* session.mu.Lock(), then SetWriteDeadline and the start of WriteMessage
LockSession(c) ==
  /\ call[c].pc = "lock_session"
  /\ CanLockSession(call[c].sess)
  /\ smu' = [smu EXCEPT ![call[c].sess] = c]
  /\ call' = [call EXCEPT ![c].pc = "writing"]
  /\ UNCHANGED <<registryVars, pending, bmuReaders, wwait, rl, chans, wire, ls,
                 panicked, cl>>

\* a write that returns without unlocking the session
WriteOKKeepsMutex(c) ==
  /\ call[c].pc = "writing"
  /\ ~ConnClosed(call[c].sess)
  /\ wire' = [wire EXCEPT ![call[c].sess] = @ \cup {call[c].id}]
  /\ smu' = smu
  /\ call' = [call EXCEPT ![c].pc = "wait"]
  /\ UNCHANGED <<registryVars, pending, bmuReaders, wwait, rl, chans, ls,
                 panicked, cl>>

\* WriteMessage returned nil; session.mu.Unlock()
WriteOK(c) ==
  /\ call[c].pc = "writing"
  /\ ~ConnClosed(call[c].sess)
  /\ wire' = [wire EXCEPT ![call[c].sess] = @ \cup {call[c].id}]
  /\ smu' = [smu EXCEPT ![call[c].sess] = Unlocked]
  /\ call' = [call EXCEPT ![c].pc = "wait"]
  /\ UNCHANGED <<registryVars, pending, bmuReaders, wwait, rl, chans, ls,
                 panicked, cl>>

\* WriteMessage returned an error (write deadline hit, connection closed);
\* session.mu.Unlock()
WriteFail(c) ==
  /\ call[c].pc = "writing"
  /\ smu' = [smu EXCEPT ![call[c].sess] = Unlocked]
  /\ call' = [call EXCEPT ![c].pc = "write_failed"]
  /\ UNCHANGED <<registryVars, pending, bmuReaders, wwait, rl, chans, wire, ls,
                 panicked, cl>>

\* error paths that return without deleting the slot
DeleteSlotForgotten(id) == pending

\* delete(b.pending, cmd.ID) as SendCommand does it on both error paths
DeleteSlot(id) == [pending EXCEPT ![id] = NoChan]

\* a write-error path that keeps the slot and goes on to wait for a reply
WriteFailCleanupWaits(c) ==
  /\ call[c].pc = "write_failed"
  /\ CanLock(CallerG(c))
  /\ pending' = pending
  /\ call' = [call EXCEPT ![c].pc = "wait"]
  /\ wwait' = NoWriter
  /\ UNCHANGED <<registryVars, smu, bmuReaders, rl, chans, wire, ls, panicked, cl>>

\* the write-error path: delete the slot, return the error
WriteFailCleanup(c) ==
  /\ call[c].pc = "write_failed"
  /\ CanLock(CallerG(c))
  /\ pending' = DeleteSlot(call[c].id)
  /\ call' = [call EXCEPT ![c] = Return(c, "write_error", NoResponse)]
  /\ wwait' = NoWriter
  /\ UNCHANGED <<registryVars, smu, bmuReaders, rl, chans, wire, ls, panicked, cl>>

\* select: `case resp := <-ch`.  A closed, drained channel yields the zero
\* Response.
Receive(c) ==
  /\ call[c].pc = "wait"
  /\ LET ch == call[c].ch IN
       \/ /\ chans[ch].buf # <<>>
          /\ chans' = [chans EXCEPT ![ch].buf = Tail(@)]
          /\ call' = [call EXCEPT
                        ![c] = Return(c, "response", Head(chans[ch].buf))]
       \/ /\ chans[ch].buf = <<>>
          /\ chans[ch].closed
          /\ chans' = chans
          /\ call' = [call EXCEPT ![c] = Return(c, "response", NoResponse)]
  /\ UNCHANGED <<registryVars, pending, lockVars, rl, wire, ls,
                 panicked, cl>>

\* a ctx that has no deadline and is never cancelled
CtxNeverDone(c) ==
  /\ call[c].pc = "wait"
  /\ FALSE
  /\ UNCHANGED vars

\* select: `case <-ctx.Done()`.  Go picks among the ready cases at random,
\* so this case can be taken whether or not ch already holds a Response.
\* A ctx that is never Done is the run in which this step is never taken.
CtxDone(c) ==
  /\ call[c].pc = "wait"
  /\ call' = [call EXCEPT ![c].pc = "timeout_cleanup"]
  /\ UNCHANGED <<registryVars, pending, lockVars, rl, chans, wire, ls, panicked, cl>>

\* a ctx.Done path that returns ctx.Err() and leaves the slot behind
TimeoutCleanupLeaks(c) ==
  /\ call[c].pc = "timeout_cleanup"
  /\ call' = [call EXCEPT ![c] = Return(c, "timeout", NoResponse)]
  /\ UNCHANGED <<registryVars, pending, lockVars, rl, chans, wire, ls,
                 panicked, cl>>

\* the ctx.Done path: delete the slot, return ctx.Err()
TimeoutCleanup(c) ==
  /\ call[c].pc = "timeout_cleanup"
  /\ CanLock(CallerG(c))
  /\ pending' = DeleteSlot(call[c].id)
  /\ call' = [call EXCEPT ![c] = Return(c, "timeout", NoResponse)]
  /\ wwait' = NoWriter
  /\ UNCHANGED <<registryVars, smu, bmuReaders, rl, chans, wire, ls, panicked, cl>>

\* ---------------------------------------------- ListSessions and Count
\* a ListSessions that iterates over the map without taking the read lock
ListBeginUnlocked(l) ==
  /\ ls[l].pc = "idle"
  /\ ls' = [ls EXCEPT ![l] = [IdleLister EXCEPT !.pc = "iter",
                                                !.todo = sessions]]
  /\ UNCHANGED <<registryVars, pending, lockVars, rl, chans, callVars,
                 panicked, cl>>

\* b.mu.RLock(); out := make(...)
ListBegin(l) ==
  /\ ls[l].pc = "idle"
  /\ CanRLock
  /\ bmuReaders' = bmuReaders \cup {l}
  /\ ls' = [ls EXCEPT ![l] = [IdleLister EXCEPT !.pc = "iter",
                                                !.todo = sessions]]
  /\ UNCHANGED <<registryVars, pending, smu, wwait, rl, chans, callVars,
                 panicked, cl>>

\* `for id, s := range b.sessions`: the next key, in map order
ListPick(l) ==
  /\ ls[l].pc = "iter"
  /\ ls[l].cur = NoSession
  /\ \E s \in ls[l].todo : ls' = [ls EXCEPT ![l].cur = s]
  /\ UNCHANGED <<registryVars, pending, lockVars, rl, chans, callVars,
                 panicked, cl>>

\* s.mu.Lock(); info := SessionInfo{...}; s.mu.Unlock(); append
ListVisit(l) ==
  /\ ls[l].pc = "iter"
  /\ ls[l].cur # NoSession
  /\ CanLockSession(ls[l].cur)
  /\ LET s == ls[l].cur
         info == [id |-> s, active |-> s = activeID]
     IN ls' = [ls EXCEPT ![l].out = @ \cup {info}, ![l].todo = @ \ {s},
                         ![l].cur = NoSession]
  /\ UNCHANGED <<registryVars, pending, lockVars, rl, chans, callVars,
                 panicked, cl>>

\* return out, with the deferred b.mu.RUnlock(); out goes to the caller
ListReturn(l) ==
  /\ ls[l].pc = "iter"
  /\ ls[l].cur = NoSession
  /\ ls[l].todo = {}
  /\ bmuReaders' = bmuReaders \ {l}
  /\ ls' = [ls EXCEPT ![l] = IdleLister]
  /\ UNCHANGED <<registryVars, pending, smu, wwait, rl, chans, callVars,
                 panicked, cl>>

\* Count: len(b.sessions) under RLock
Count(l) ==
  /\ ls[l].pc = "idle"
  /\ CanRLock
  /\ ls' = [ls EXCEPT ![l] = [IdleLister EXCEPT
                                !.count = Cardinality(sessions)]]
  /\ UNCHANGED <<registryVars, pending, lockVars, rl, chans, callVars,
                 panicked, cl>>

\* ------------------------------------------------- DisconnectSession
\* DisconnectSession(id) for "" or a session id: resolve the session as
\* SendCommand does; an id that resolves to no live session is an error.
DisconnectSessionBegin(l, id) ==
  /\ ls[l].pc = "idle"
  /\ CanRLock
  /\ LET s == sessionByID(id) IN
       ls' = [ls EXCEPT ![l] =
         IF s = NoSession
           THEN [IdleLister EXCEPT !.req = id, !.err = "no_session"]
           ELSE [IdleLister EXCEPT !.pc = "remove", !.req = id, !.cur = s]]
  /\ UNCHANGED <<registryVars, pending, lockVars, rl, chans, callVars,
                 panicked, cl>>

\* a forced disconnect that removes the session and leaves active alone
DisconnectSessionRemoveOnly(l) ==
  /\ ls[l].pc = "remove"
  /\ CanLock(<<"admin", l>>)
  /\ sessions' = sessions \ {ls[l].cur}
  /\ ls' = [ls EXCEPT ![l].pc = "close"]
  /\ wwait' = NoWriter
  /\ UNCHANGED <<activeID, lastID, pending, smu, bmuReaders, rl, chans,
                 callVars, panicked, cl>>

\* Disconnect(id) under the lock: remove the session, move active off it.
DisconnectSessionRemove(l) ==
  /\ ls[l].pc = "remove"
  /\ CanLock(<<"admin", l>>)
  /\ sessions' = sessions \ {ls[l].cur}
  /\ IF activeID = ls[l].cur
       THEN activeID' \in ReassignActive(sessions \ {ls[l].cur})
       ELSE activeID' = activeID
  /\ ls' = [ls EXCEPT ![l].pc = "close"]
  /\ wwait' = NoWriter
  /\ UNCHANGED <<lastID, pending, smu, bmuReaders, rl, chans, callVars,
                 panicked, cl>>

\* close the transport, which fails the session's pending and later reads,
\* and return nil
DisconnectSessionClose(l) ==
  /\ ls[l].pc = "close"
  /\ rl' = [rl EXCEPT ![ls[l].cur].conn = "closed"]
  /\ ls' = [ls EXCEPT ![l] = [IdleLister EXCEPT !.req = ls[l].req,
                                                !.cur = ls[l].cur,
                                                !.err = "nil"]]
  /\ UNCHANGED <<registryVars, pending, lockVars, chans, callVars, panicked, cl>>

\* ------------------------------------------------- the browser client
\* Response.Error and Response.ErrorCode as the peer may set them
ErrorTexts == {"", "element not found", "tab closed"}
ErrorCodes == {"", "E_NOT_FOUND", "E_TAB"}
Responses  == [ok : BOOLEAN, error : ErrorTexts, errorCode : ErrorCodes]

\* the operations of the client: Snapshot, and some of those that go through
\* sendAction / sendActionWithData
ActionOps == {"click", "navigate", "list_tabs"}
ClientOps == ActionOps \cup {"snapshot"}

\* errors.New("browser action failed")
GenericFailure == <<"browser action failed">>

\* the value returned for a Response that passed the ok test
Passed == [kind |-> "passed", msg |-> <<>>]

\* the error value made from a message, the message kept as the pieces that
\* fmt.Errorf puts together
RemoteFailure(msg) == [kind |-> "remote_failure", msg |-> msg]

\* sendActionWithData after SendCommand returned resp without an error
sendActionWithData(resp) ==
  IF ~resp.ok
    THEN IF resp.error = "" /\ resp.errorCode = ""
           THEN RemoteFailure(GenericFailure)
         ELSE IF resp.error = ""
           THEN RemoteFailure(<<"browser action failed", " (", resp.errorCode, ")">>)
         ELSE IF resp.errorCode # ""
           THEN RemoteFailure(<<resp.error, " (", resp.errorCode, ")">>)
           ELSE RemoteFailure(<<resp.error>>)
    ELSE Passed

\* Snapshot after SendCommand returned resp without an error
Snapshot(resp) ==
  IF ~resp.ok THEN RemoteFailure(<<resp.error>>) ELSE Passed

\* a client whose every operation reports a failed Response as Snapshot does
SurfaceAsSnapshot(op, resp) == Snapshot(resp)

\* what the operation op makes of the Response resp
Surface(op, resp) ==
  IF op = "snapshot" THEN Snapshot(resp) ELSE sendActionWithData(resp)

\* the client turns the Response of its call into the caller's result
SurfaceResponse ==
  /\ cl.fn = "surface"
  /\ cl.pc = "returned"
  /\ cl' = [cl EXCEPT !.pc = "done", !.out = Surface(cl.op, cl.resp)]
  /\ UNCHANGED <<registryVars, pending, lockVars, rl, chans, callVars, ls,
                 panicked>>

\* browser.Target values; TabID is an int, 0 for none
TabIds  == -1..2
Targets == [sessionId : {NoSession} \cup SessionIds, tabId : TabIds]

\* a context that carries no Target: ctx.Value(targetKey{}) == nil
NoTarget == [attached |-> FALSE]

\* context.WithValue(ctx, targetKey{}, target)
Attached(t) == [attached |-> TRUE, target |-> t]

\* browser.WithTarget
WithTarget(ctx, t) ==
  IF t.sessionId = NoSession /\ t.tabId = 0 THEN ctx ELSE Attached(t)

\* Server.withTarget: the handler's TargetInput goes to browser.WithTarget
withTarget(ctx, t) ==
  IF t.sessionId = NoSession /\ t.tabId = 0 THEN ctx ELSE WithTarget(ctx, t)

\* browser.TargetFromContext: (target, ok)
TargetFromContext(ctx) ==
  IF ctx.attached THEN [target |-> ctx.target, ok |-> TRUE]
  ELSE [target |-> [sessionId |-> NoSession, tabId |-> 0], ok |-> FALSE]

\* a makeCommand that copies only the session id out of the Target
makeCommandDropsTab(ctx) ==
  IF TargetFromContext(ctx).ok
    THEN [sessionId |-> TargetFromContext(ctx).target.sessionId, tabId |-> 0]
    ELSE [sessionId |-> NoSession, tabId |-> 0]

\* Client.makeCommand: the addressing fields of the command it builds
makeCommand(ctx) ==
  IF TargetFromContext(ctx).ok
    THEN [sessionId |-> TargetFromContext(ctx).target.sessionId,
          tabId |-> TargetFromContext(ctx).target.tabId]
    ELSE [sessionId |-> NoSession, tabId |-> 0]

\* a tool handler attaches its TargetInput to the request context
AttachTarget ==
  /\ cl.fn = "target"
  /\ cl.pc = "start"
  /\ cl' = [cl EXCEPT !.pc = "attached", !.ctx = withTarget(cl.ctx, cl.t)]
  /\ UNCHANGED <<registryVars, pending, lockVars, rl, chans, callVars, ls,
                 panicked>>

\* the client builds the command for the call
BuildCommand ==
  /\ cl.fn = "target"
  /\ cl.pc = "attached"
  /\ cl' = [cl EXCEPT !.pc = "built", !.cmd = makeCommand(cl.ctx)]
  /\ UNCHANGED <<registryVars, pending, lockVars, rl, chans, callVars, ls,
                 panicked>>

\* -------------------------------------------------- the wire protocol
\* json.RawMessage: a nil slice, or the bytes of a JSON text kept as its
\* tokens, " " standing for insignificant whitespace
NilBytes == [nil |-> TRUE, bytes |-> <<>>]
Bytes(b) == [nil |-> FALSE, bytes |-> b]

\* the payloads of the commands: none, and what json.Marshal makes of nil,
\* of an empty payload struct and of a ClickPayload
Payloads ==
  {NilBytes, Bytes(<<"null">>), Bytes(<<"{", "}">>),
   Bytes(<<"{", "\"selector\"", ":", "\"#submit\"", "}">>)}

CommandTypes == {"click", "back", "snapshot"}

\* protocol.Command; "" is NoSession for SessionID and 0 no tab for TabID
Commands ==
  [id : {"1", "2"}, type : CommandTypes, sessionId : {NoSession, 1},
   tabId : {0, 7}, payload : Payloads]

\* the encoder compacts what a Marshaler returns: whitespace is dropped
RECURSIVE Compact(_)
Compact(b) ==
  IF b = <<>> THEN <<>>
  ELSE IF Head(b) = " " THEN Compact(Tail(b))
  ELSE <<Head(b)>> \o Compact(Tail(b))

\* RawMessage.MarshalJSON as the encoder writes it: null for a nil slice
MarshalRaw(m) == IF m.nil THEN <<"null">> ELSE Compact(m.bytes)

\* RawMessage.UnmarshalJSON: the bytes of the value, whatever the value is
UnmarshalRaw(v) == Bytes(v)

\* json.Marshal(cmd): the members of the object; sessionId and tabId are
\* omitempty, id, type and payload are always written
MarshalCommand(c) ==
  [k \in {"id", "type", "payload"}
        \cup (IF c.sessionId # NoSession THEN {"sessionId"} ELSE {})
        \cup (IF c.tabId # 0 THEN {"tabId"} ELSE {}) |->
     IF k = "payload" THEN MarshalRaw(c.payload) ELSE c[k]]

\* json.Unmarshal(data, &got) into a zero Command: a member that is absent
\* leaves the zero value of its field
UnmarshalCommand(w) ==
  [id        |-> IF "id" \in DOMAIN w THEN w["id"] ELSE "",
   type      |-> IF "type" \in DOMAIN w THEN w["type"] ELSE "",
   sessionId |-> IF "sessionId" \in DOMAIN w THEN w["sessionId"] ELSE NoSession,
   tabId     |-> IF "tabId" \in DOMAIN w THEN w["tabId"] ELSE 0,
   payload   |-> IF "payload" \in DOMAIN w THEN UnmarshalRaw(w["payload"])
                                           ELSE NilBytes]

\* the command is serialized for the wire
SerializeCommand ==
  /\ cl.fn = "wire"
  /\ cl.pc = "start"
  /\ cl' = [cl EXCEPT !.pc = "sent", !.frame = MarshalCommand(cl.cmd)]
  /\ UNCHANGED <<registryVars, pending, lockVars, rl, chans, callVars, ls,
                 panicked>>

\* the frame is parsed on the other side
ParseCommand ==
  /\ cl.fn = "wire"
  /\ cl.pc = "sent"
  /\ cl' = [cl EXCEPT !.pc = "parsed", !.got = UnmarshalCommand(cl.frame)]
  /\ UNCHANGED <<registryVars, pending, lockVars, rl, chans, callVars, ls,
                 panicked>>

\* ----------------------------------------------------- the page reducer
\* A Go string is kept as the sequence of its characters; a piece that no
\* operation looks into (a tag, "href=", an attribute value) may stand as
\* one item.  "" is <<>>.
Space == {" ", "\n"}

RECURSIVE TrimLeft(_)
TrimLeft(s) ==
  IF s = <<>> THEN <<>>
  ELSE IF Head(s) \in Space THEN TrimLeft(Tail(s)) ELSE s

RECURSIVE TrimRight(_)
TrimRight(s) ==
  IF s = <<>> THEN <<>>
  ELSE IF s[Len(s)] \in Space THEN TrimRight(SubSeq(s, 1, Len(s) - 1)) ELSE s

\* strings.TrimSpace
TrimSpace(s) == TrimRight(TrimLeft(s))

\* strings.ToLower on the input types in use
LowerAtom(a) ==
  CASE a = "CHECKBOX" -> "checkbox"
    [] a = "Submit"   -> "submit"
    [] OTHER          -> a

ToLower(s) == [k \in 1..Len(s) |-> LowerAtom(s[k])]

\* strings.Fields: the maximal runs of characters that are not white space
RECURSIVE Fields(_)
Fields(s) ==
  LET t == TrimLeft(s) IN
  IF t = <<>> THEN <<>>
  ELSE LET n == IF \E k \in 1..Len(t) : t[k] \in Space
                  THEN (CHOOSE k \in 1..Len(t) :
                          t[k] \in Space /\ \A j \in 1..(k - 1) : t[j] \notin Space) - 1
                  ELSE Len(t)
       IN <<SubSeq(t, 1, n)>> \o Fields(SubSeq(t, n + 1, Len(t)))

\* strings.Join(parts, sep)
RECURSIVE Join(_, _)
Join(parts, sep) ==
  IF parts = <<>> THEN <<>>
  ELSE IF Len(parts) = 1 THEN parts[1]
  ELSE parts[1] \o sep \o Join(Tail(parts), sep)

\* a text clean-up that trims the ends and keeps the inner runs
compactWhitespaceEndsOnly(input) == TrimSpace(input)

\* compactWhitespace
compactWhitespace(input) == Join(Fields(input), <<" ">>)

\* itoa: the decimal digits of i
DigitChars == <<"0", "1", "2", "3", "4", "5", "6", "7", "8", "9">>

RECURSIVE Digits(_)
Digits(i) ==
  IF i = 0 THEN <<>> ELSE Digits(i \div 10) \o <<DigitChars[(i % 10) + 1]>>

itoa(i) == IF i = 0 THEN <<"0">> ELSE Digits(i)

\* the attributes the reducer reads; an attribute a node lacks reads as ""
AttrKeys ==
  {"id", "data-testid", "data-test", "data-qa", "data-automation", "data-cy",
   "data-automation-id", "name", "aria-label", "class", "role", "href", "type",
   "title", "alt", "value", "placeholder"}

NoAttrs == [k \in AttrKeys |-> <<>>]

\* the fallback list of firstDataAttr, in its order
DataKeys ==
  <<"data-test", "data-qa", "data-automation", "data-cy", "data-automation-id">>

\* firstDataAttr: the first key of the list with a value, "" for none
RECURSIVE firstDataAttr(_, _)
firstDataAttr(attrs, keys) ==
  IF keys = <<>> THEN [key |-> "", val |-> <<>>]
  ELSE IF attrs[Head(keys)] # <<>> THEN [key |-> Head(keys), val |-> attrs[Head(keys)]]
  ELSE firstDataAttr(attrs, Tail(keys))

\* a selector synthesis that tries the class before the id
selectorClassFirst(tag, attrs, index, path) ==
  IF attrs["class"] # <<>> /\ Fields(attrs["class"]) # <<>>
    THEN <<tag, ".">> \o Fields(attrs["class"])[1]
  ELSE IF attrs["id"] # <<>> THEN <<"#">> \o attrs["id"]
  ELSE <<tag>>

\* selectorFromNode, for a node with the attributes attrs that is the
\* index-th element among its siblings (0 when it has no parent)
selectorFromNode(tag, attrs, index, path) ==
  IF attrs["id"] # <<>> THEN <<"#">> \o attrs["id"]
  ELSE IF attrs["data-testid"] # <<>>
    THEN <<tag, "[data-testid=\"">> \o attrs["data-testid"] \o <<"\"]">>
  ELSE IF firstDataAttr(attrs, DataKeys).key # ""
    THEN <<tag, "[", firstDataAttr(attrs, DataKeys).key, "=\"">>
           \o firstDataAttr(attrs, DataKeys).val \o <<"\"]">>
  ELSE IF attrs["name"] # <<>>
    THEN <<tag, "[name=\"">> \o attrs["name"] \o <<"\"]">>
  ELSE IF attrs["aria-label"] # <<>>
    THEN <<tag, "[aria-label=\"">> \o attrs["aria-label"] \o <<"\"]">>
  ELSE IF attrs["class"] # <<>> /\ Fields(attrs["class"]) # <<>>
    THEN <<tag, ".">> \o Fields(attrs["class"])[1]
  ELSE IF index > 0
    THEN <<tag, ":nth-child(">> \o itoa(index) \o <<")">>
  ELSE IF path # <<>>
    THEN Join([k \in 1..Len(path) |-> <<path[k]>>], <<" > ">>)
  ELSE <<tag>>

\* the nodes a selector is synthesized for: which attributes are set, the
\* position among the siblings, the ancestor path
SelectorInputs ==
  [tag : {"a"},
   attrs : {[NoAttrs EXCEPT !["id"] = a1, !["data-testid"] = a2,
               !["data-test"] = a3, !["data-qa"] = a4,
               !["data-automation"] = a10, !["data-cy"] = a5,
               !["data-automation-id"] = a6, !["name"] = a7,
               !["aria-label"] = a8, !["class"] = a9] :
              a1 \in {<<>>, <<"x">>}, a2 \in {<<>>, <<"t">>},
              a3 \in {<<>>, <<"d">>}, a4 \in {<<>>, <<"q">>},
              a5 \in {<<>>, <<"c">>}, a6 \in {<<>>, <<"u">>},
              a7 \in {<<>>, <<"n">>}, a8 \in {<<>>, <<"l">>},
              a9 \in {<<>>, <<" ">>, <<" ", "y", " ", "z">>},
              a10 \in {<<>>, <<"m">>}},
   index : {0, 2, 12},
   path : {<<>>, <<"html", "body", "a">>}]

\* the reducer synthesizes the selector of a node
SynthesizeSelector ==
  /\ cl.fn = "selector"
  /\ cl.pc = "start"
  /\ cl' = [cl EXCEPT !.pc = "done",
               !.out = selectorFromNode(cl.node.tag, cl.node.attrs,
                                        cl.node.index, cl.node.path)]
  /\ UNCHANGED <<registryVars, pending, lockVars, rl, chans, callVars, ls,
                 panicked>>

\* page.Element with every field empty
NoElement ==
  [tag |-> "", text |-> <<>>, selector |-> <<>>, href |-> <<>>,
   inputType |-> <<>>, name |-> <<>>, id |-> <<>>, ariaLabel |-> <<>>,
   title |-> <<>>, alt |-> <<>>, value |-> <<>>, placeholder |-> <<>>,
   context |-> <<>>]

\* a verb table that treats every input alike
actionVerbIgnoresType(el) ==
  CASE el.tag = "a"        -> "open"
    [] el.tag = "button"   -> "click"
    [] el.tag = "input"    -> "type"
    [] el.tag = "select"   -> "select"
    [] el.tag = "textarea" -> "type"
    [] el.tag \in {"div", "span"} -> "click"
    [] OTHER -> ""

\* actionVerb
actionVerb(el) ==
  CASE el.tag = "a"        -> "open"
    [] el.tag = "button"   -> "click"
    [] el.tag = "input"    ->
         (CASE ToLower(el.inputType) \in {<<"submit">>, <<"button">>} -> "click"
            [] ToLower(el.inputType) = <<"checkbox">> -> "toggle"
            [] ToLower(el.inputType) = <<"radio">>    -> "select"
            [] OTHER -> "type")
    [] el.tag = "select"   -> "select"
    [] el.tag = "textarea" -> "type"
    [] el.tag \in {"div", "span"} -> "click"
    [] OTHER -> ""

\* the values actionLabel goes through, in its order
LabelCandidates(el) ==
  <<TrimSpace(el.text), el.ariaLabel, el.title, el.alt, el.value,
    el.placeholder, el.name, el.context>>

RECURSIVE FirstLabel(_)
FirstLabel(vs) ==
  IF vs = <<>> THEN <<>>
  ELSE IF TrimSpace(Head(vs)) # <<>> THEN TrimSpace(Head(vs))
  ELSE FirstLabel(Tail(vs))

\* a label that is only ever the element's text
actionLabelTextOnly(el) == TrimSpace(el.text)

\* actionLabel
actionLabel(el) == FirstLabel(LabelCandidates(el))

\* a hint that prefers the input type to the href
actionHintTypeFirst(el) ==
  IF el.inputType # <<>> THEN <<"type=">> \o el.inputType
  ELSE IF el.href # <<>> THEN <<"href=">> \o el.href
  ELSE IF el.name # <<>> THEN <<"name=">> \o el.name
  ELSE <<>>

\* actionHint
actionHint(el) ==
  IF el.href # <<>> THEN <<"href=">> \o el.href
  ELSE IF el.inputType # <<>> THEN <<"type=">> \o el.inputType
  ELSE IF el.name # <<>> THEN <<"name=">> \o el.name
  ELSE <<>>

\* buildActions: one Action for every element with a verb and a selector
RECURSIVE buildActions(_)
buildActions(elements) ==
  IF elements = <<>> THEN <<>>
  ELSE LET el == Head(elements) IN
       (IF actionVerb(el) = "" \/ el.selector = <<>>
          THEN <<>>
          ELSE <<[verb |-> actionVerb(el), selector |-> el.selector,
                  label |-> actionLabel(el), hint |-> actionHint(el)]>>)
       \o buildActions(Tail(elements))

\* elements that differ in what the verb depends on
VerbElements ==
  {[NoElement EXCEPT !.tag = t, !.inputType = ty, !.selector = sel, !.name = nm] :
     t \in {"a", "button", "input", "select", "textarea", "div", "span", "p", "A"},
     ty \in {<<>>, <<"submit">>, <<"Submit">>, <<"button">>, <<"checkbox">>,
             <<"CHECKBOX">>, <<"radio">>, <<"text">>},
     sel \in {<<>>, <<"#", "x">>},
     nm \in {<<>>, <<"q">>}}

\* elements that differ in what the label and the hint depend on
LabelElements ==
  {[NoElement EXCEPT !.tag = "input", !.selector = <<"#", "x">>,
      !.text = tx, !.ariaLabel = ar, !.title = ti, !.alt = al, !.value = va,
      !.placeholder = pl, !.name = nm, !.context = cx, !.href = hr,
      !.inputType = ty] :
     tx \in {<<>>, <<" ">>, <<" ", "t", " ">>},
     ar \in {<<>>, <<" ">>, <<"r">>},
     ti \in {<<>>, <<"i", " ">>},
     al \in {<<>>, <<"l">>},
     va \in {<<>>, <<"v">>},
     pl \in {<<>>, <<"p">>},
     nm \in {<<>>, <<"n">>},
     cx \in {<<>>, <<"c">>},
     hr \in {<<>>, <<"/start">>},
     ty \in {<<>>, <<"text">>}}

\* the reducer derives the actions of an element list
BuildActions ==
  /\ cl.fn = "actions"
  /\ cl.pc = "start"
  /\ cl' = [cl EXCEPT !.pc = "done", !.out = buildActions(cl.elements)]
  /\ UNCHANGED <<registryVars, pending, lockVars, rl, chans, callVars, ls,
                 panicked>>

\* ------------------------------------------------ the parsed document
\* the nodes of the tree html.Parse returns: an element has a tag, its
\* attributes and its children, a text node has its characters
TextNode(d) ==
  [type |-> "text", data |-> "", text |-> d, attrs |-> NoAttrs, kids |-> <<>>]

ElementNode(tag, attrs, kids) ==
  [type |-> "element", data |-> tag, text |-> <<>>, attrs |-> attrs,
   kids |-> kids]

\* the nil *html.Node: the parent of the root
NoNode ==
  [type |-> "none", data |-> "", text |-> <<>>, attrs |-> NoAttrs,
   kids |-> <<>>]

\* html.Parse: the document node, html, an empty head, and the body with
\* the content
Document(body) ==
  [type |-> "document", data |-> "", text |-> <<>>, attrs |-> NoAttrs,
   kids |-> <<ElementNode("html", NoAttrs,
                <<ElementNode("head", NoAttrs, <<>>),
                  ElementNode("body", NoAttrs, body)>>)>>]

\* nodeText: the trimmed text nodes below n, each followed by a space, the
\* whole trimmed
RECURSIVE nodeTextWalk(_), nodeTextKids(_)
nodeTextWalk(n) ==
  (IF n.type = "text" /\ TrimSpace(n.text) # <<>>
     THEN TrimSpace(n.text) \o <<" ">> ELSE <<>>)
  \o nodeTextKids(n.kids)

nodeTextKids(kids) ==
  IF kids = <<>> THEN <<>>
  ELSE nodeTextWalk(Head(kids)) \o nodeTextKids(Tail(kids))

nodeText(n) == TrimSpace(nodeTextWalk(n))

\* a position that is never known
nthChildIndexUnknown(parent, k) == 0

\* nthChildIndex of the k-th child of parent: its position among the
\* element children, 0 without a parent
nthChildIndex(parent, k) ==
  IF parent.type = "none" THEN 0
  ELSE Cardinality({j \in 1..k : parent.kids[j].type = "element"})

\* contextText of the k-th child of parent: the text nodes next to it
RECURSIVE contextWalk(_, _, _)
contextWalk(kids, j, k) ==
  IF j > Len(kids) THEN <<>>
  ELSE (IF j # k /\ kids[j].type = "text" /\ TrimSpace(kids[j].text) # <<>>
          THEN TrimSpace(kids[j].text) \o <<" ">> ELSE <<>>)
       \o contextWalk(kids, j + 1, k)

contextText(parent, k, limit) ==
  IF parent.type = "none" THEN <<>>
  ELSE LET ctx == TrimSpace(contextWalk(parent.kids, 1, k)) IN
       IF limit > 0 /\ Len(ctx) > limit THEN SubSeq(ctx, 1, limit) ELSE ctx

\* an actionable test that takes any div or span with a role
isActionableAnyRole(tag, attrs) ==
  CASE tag \in {"a", "button", "input", "select", "textarea"} -> TRUE
    [] tag \in {"div", "span"} -> attrs["role"] # <<>>
    [] OTHER -> FALSE

\* isActionable
isActionable(tag, attrs) ==
  CASE tag \in {"a", "button", "input", "select", "textarea"} -> TRUE
    [] tag \in {"div", "span"} ->
         attrs["role"] = <<"button">> \/ attrs["role"] = <<"link">>
    [] OTHER -> FALSE

\* elementFromNode, for the k-th child n of parent
elementFromNode(tag, n, parent, k, path) ==
  [tag |-> tag,
   text |-> nodeText(n),
   selector |-> selectorFromNode(tag, n.attrs, nthChildIndex(parent, k), path),
   href |-> n.attrs["href"],
   inputType |-> n.attrs["type"],
   name |-> n.attrs["name"],
   id |-> n.attrs["id"],
   ariaLabel |-> n.attrs["aria-label"],
   title |-> n.attrs["title"],
   alt |-> n.attrs["alt"],
   value |-> n.attrs["value"],
   placeholder |-> n.attrs["placeholder"],
   context |-> contextText(parent, k, 80)]

\* the walk of parseHTML over the k-th child n of parent; acc holds the
\* elements and the text collected so far
RECURSIVE walk(_, _, _, _, _, _), walkKids(_, _, _, _, _)
walk(n, parent, k, path, acc, maxElements) ==
  LET tag == LowerAtom(n.data)
      path1 == IF n.type = "element" THEN Append(path, tag) ELSE path
      el == elementFromNode(tag, n, parent, k, path1)
      acc1 == IF /\ n.type = "element"
                 /\ isActionable(tag, n.attrs)
                 /\ \/ el.text # <<>>
                    \/ el.ariaLabel # <<>>
                    \/ el.name # <<>>
                    \/ el.id # <<>>
                THEN [acc EXCEPT !.elements = Append(@, el)]
                ELSE acc
      acc2 == IF n.type = "text" /\ TrimSpace(n.text) # <<>>
                THEN [acc1 EXCEPT !.text = @ \o TrimSpace(n.text) \o <<" ">>]
                ELSE acc1
  IN walkKids(n, 1, path1, acc2, maxElements)

walkKids(n, k, path, acc, maxElements) ==
  IF k > Len(n.kids) THEN acc
  ELSE IF maxElements > 0 /\ Len(acc.elements) >= maxElements THEN acc
  ELSE walkKids(n, k + 1, path,
                walk(n.kids[k], n, k, path, acc, maxElements), maxElements)

\* parseHTML of the markup whose body holds the nodes body
parseHTML(body, maxElements) ==
  walk(Document(body), NoNode, 0, <<>>, [elements |-> <<>>, text |-> <<>>],
       maxElements)

defaultMaxText == 4000

defaultMaxElements == 80

\* NewReducer: a limit that is not positive is replaced by its default
NewReducer(opts) ==
  [maxText |-> IF opts.maxText <= 0 THEN defaultMaxText ELSE opts.maxText,
   maxElements |-> IF opts.maxElements <= 0 THEN defaultMaxElements
                   ELSE opts.maxElements]

\* what parseHTML returns to Reduce; nothing when the page has no html
Parsed(r, raw) ==
  IF raw.html.present THEN parseHTML(raw.html.body, r.maxElements)
  ELSE [elements |-> <<>>, text |-> <<>>]

\* a Reduce that does not cut the element list
ReduceKeepsAll(r, raw) ==
  LET text0 == TrimSpace(raw.text)
      text1 == IF raw.html.present /\ text0 = <<>> THEN Parsed(r, raw).text
               ELSE text0
      el1 == IF raw.html.present /\ raw.elements = <<>>
               THEN Parsed(r, raw).elements ELSE <<>>
      el2 == IF el1 = <<>> THEN raw.elements ELSE el1
      text2 == compactWhitespace(text1)
      text3 == IF Len(text2) > r.maxText THEN SubSeq(text2, 1, r.maxText)
               ELSE text2
  IN [id |-> "", url |-> raw.url, title |-> raw.title, text |-> text3,
      elements |-> el2, actions |-> buildActions(el2)]

\* Reducer.Reduce
Reduce(r, raw) ==
  LET text0 == TrimSpace(raw.text)
      text1 == IF raw.html.present /\ text0 = <<>> THEN Parsed(r, raw).text
               ELSE text0
      el1 == IF raw.html.present /\ raw.elements = <<>>
               THEN Parsed(r, raw).elements ELSE <<>>
      el2 == IF el1 = <<>> THEN raw.elements ELSE el1
      text2 == compactWhitespace(text1)
      text3 == IF Len(text2) > r.maxText THEN SubSeq(text2, 1, r.maxText)
               ELSE text2
      el3 == IF Len(el2) > r.maxElements THEN SubSeq(el2, 1, r.maxElements)
             ELSE el2
  IN [id |-> "", url |-> raw.url, title |-> raw.title, text |-> text3,
      elements |-> el3, actions |-> buildActions(el3)]

\* the longest body of a page
MaxDoc == 3

\* the content of a page: a text, <a id="s" href="/x">S</a>,
\* <button>Go</button>, <input placeholder="q">, <p>par</p>,
\* <div role="button"><span role="link" aria-label="in"></span> ok</div>,
\* <div role="Button">No</div>
PageNodes ==
  {TextNode(<<" ", "h", "i", "\n">>),
   ElementNode("a", [NoAttrs EXCEPT !["id"] = <<"s">>, !["href"] = <<"/x">>],
               <<TextNode(<<"S">>)>>),
   ElementNode("button", NoAttrs, <<TextNode(<<"G", "o">>)>>),
   ElementNode("input", [NoAttrs EXCEPT !["placeholder"] = <<"q">>], <<>>),
   ElementNode("p", NoAttrs, <<TextNode(<<"p", "a", "r">>)>>),
   ElementNode("div", [NoAttrs EXCEPT !["role"] = <<"button">>],
               <<ElementNode("span", [NoAttrs EXCEPT !["role"] = <<"link">>,
                                        !["aria-label"] = <<"in">>], <<>>),
                 TextNode(<<" ", "o", "k">>)>>),
   ElementNode("div", [NoAttrs EXCEPT !["role"] = <<"Button">>],
               <<TextNode(<<"N", "o">>)>>)}

\* the parser joins text that stands side by side into one text node
Bodies ==
  {b \in UNION {[1..n -> PageNodes] : n \in 0..MaxDoc} :
     \A k \in 1..(Len(b) - 1) : ~(b[k].type = "text" /\ b[k + 1].type = "text")}

\* the elements a caller supplies with the page
CallerElements ==
  <<[NoElement EXCEPT !.tag = "a", !.selector = <<"#", "p">>, !.text = <<"P">>],
    [NoElement EXCEPT !.tag = "p", !.selector = <<"#", "q">>,
                      !.text = <<"Q">>],
    [NoElement EXCEPT !.tag = "input", !.selector = <<"#", "r">>,
                      !.name = <<"r">>]>>

\* the pages handed to Reduce
RawPages ==
  [url : {"u"}, title : {"t"},
   text : {<<>>, <<" ">>, <<" ", "c", " ", "\n", "t">>},
   html : [present : {FALSE}, body : {<<>>}]
          \cup [present : {TRUE}, body : Bodies],
   elements : {SubSeq(CallerElements, 1, n) : n \in {0, 1, 3}}]

\* the limits a reducer is built with
ReduceOptions == [maxText : {0, 1, 3}, maxElements : {0, 1, 2}]

\* a reducer built from opts reduces the page raw
ReducePage ==
  /\ cl.fn = "reduce"
  /\ cl.pc = "start"
  /\ cl' = [cl EXCEPT !.pc = "done",
               !.parsed = Parsed(NewReducer(cl.opts), cl.raw),
               !.out = Reduce(NewReducer(cl.opts), cl.raw)]
  /\ UNCHANGED <<registryVars, pending, lockVars, rl, chans, callVars, ls,
                 panicked>>

\* --------------------------------------------------- the snapshot store
\* the most Puts one store receives
MaxPuts == 3

\* the ids uuid.New can give
UUIDs == {"u" \o ToString(k) : k \in 1..MaxPuts}

\* Snapshot{}: the zero value
NoSnapshot ==
  [id |-> "", url |-> "", title |-> "", text |-> <<>>, elements |-> <<>>,
   actions |-> <<>>]

\* the snapshots handed to Put: without an id, or with one the caller set
StoreSnapshots ==
  {[NoSnapshot EXCEPT !.id = i, !.url = "u", !.title = t] :
     i \in {"", "a"}, t \in {"t1", "t2"}}

\* NewStore
NewStore ==
  [fn |-> "store", items |-> <<>>, latest |-> "", puts |-> <<>>,
   ret |-> [op |-> "none", id |-> "", snap |-> NoSnapshot, ok |-> FALSE]]

\* s.items[id] = snapshot
Store(items, id, snapshot) ==
  [k \in DOMAIN items \cup {id} |-> IF k = id THEN snapshot ELSE items[k]]

\* a Put that leaves the latest pointer alone
PutKeepsLatest(snapshot) ==
  /\ cl.fn = "store"
  /\ Len(cl.puts) < MaxPuts
  /\ \E u \in UUIDs \ DOMAIN cl.items :
       LET id == IF snapshot.id = "" THEN u ELSE snapshot.id
           stored == [snapshot EXCEPT !.id = id]
       IN cl' = [cl EXCEPT !.items = Store(@, id, stored),
                           !.puts = Append(@, [given |-> snapshot,
                                               stored |-> stored]),
                           !.ret = [op |-> "put", id |-> id, snap |-> stored,
                                    ok |-> TRUE]]
  /\ UNCHANGED <<registryVars, pending, lockVars, rl, chans, callVars, ls,
                 panicked>>

\* Store.Put; cl.puts records the Puts made so far
Put(snapshot) ==
  /\ cl.fn = "store"
  /\ Len(cl.puts) < MaxPuts
  /\ \E u \in UUIDs \ DOMAIN cl.items :
       LET id == IF snapshot.id = "" THEN u ELSE snapshot.id
           stored == [snapshot EXCEPT !.id = id]
       IN cl' = [cl EXCEPT !.items = Store(@, id, stored),
                           !.latest = id,
                           !.puts = Append(@, [given |-> snapshot,
                                               stored |-> stored]),
                           !.ret = [op |-> "put", id |-> id, snap |-> stored,
                                    ok |-> TRUE]]
  /\ UNCHANGED <<registryVars, pending, lockVars, rl, chans, callVars, ls,
                 panicked>>

\* Store.Get
Get(id) ==
  /\ cl.fn = "store"
  /\ cl' = [cl EXCEPT !.ret =
               IF id \in DOMAIN cl.items
                 THEN [op |-> "get", id |-> id, snap |-> cl.items[id],
                       ok |-> TRUE]
                 ELSE [op |-> "get", id |-> id, snap |-> NoSnapshot,
                       ok |-> FALSE]]
  /\ UNCHANGED <<registryVars, pending, lockVars, rl, chans, callVars, ls,
                 panicked>>

\* Store.Latest
Latest ==
  /\ cl.fn = "store"
  /\ cl' = [cl EXCEPT !.ret =
               IF cl.latest = "" \/ cl.latest \notin DOMAIN cl.items
                 THEN [op |-> "latest", id |-> "", snap |-> NoSnapshot,
                       ok |-> FALSE]
                 ELSE [op |-> "latest", id |-> "", snap |-> cl.items[cl.latest],
                       ok |-> TRUE]]
  /\ UNCHANGED <<registryVars, pending, lockVars, rl, chans, callVars, ls,
                 panicked>>

\* ------------------------------------------------------ the token guard
\* tokenFromRequest: the rest of an Authorization header that begins with
\* "Bearer ", else the X-Auth-Token header, else ""
tokenFromRequest(r) ==
  IF r.authorization # <<>> /\ Head(r.authorization) = "Bearer "
    THEN Tail(r.authorization)
  ELSE IF r.xAuthToken # <<>> THEN r.xAuthToken
  ELSE <<>>

\* a guard that lets every request through when no token is configured
RequireTokenOptional(token, r) ==
  IF token # <<>> /\ tokenFromRequest(r) # token
    THEN [status |-> 401, body |-> "unauthorized", next |-> FALSE]
  ELSE [status |-> 200, body |-> "", next |-> TRUE]

\* RequireToken(token)(next) serving r: what it answers and whether it
\* called next.ServeHTTP
RequireToken(token, r) ==
  IF token = <<>>
    THEN [status |-> 401, body |-> "server auth not configured", next |-> FALSE]
  ELSE IF tokenFromRequest(r) # token
    THEN [status |-> 401, body |-> "unauthorized", next |-> FALSE]
  ELSE [status |-> 200, body |-> "", next |-> TRUE]

\* a route wrapped by RequireToken serves a request
ServeHTTP ==
  /\ cl.fn = "guard"
  /\ cl.pc = "start"
  /\ cl' = [cl EXCEPT !.pc = "done", !.out = RequireToken(cl.token, cl.r)]
  /\ UNCHANGED <<registryVars, pending, lockVars, rl, chans, callVars, ls,
                 panicked>>

\* ------------------------------------------------------ specifications
\* The goroutines serving the sessions: HandleWS, readLoop, deliver
SessionStep ==
  \/ Connect
  \/ \E s \in SessionIds : ReadMessage(s)
  \/ \E s \in SessionIds : ReadError(s)
  \/ \E s \in SessionIds : Seen(s)
  \/ \E s \in SessionIds : Deliver(s)
  \/ \E s \in SessionIds : Send(s)
  \/ \E s \in SessionIds : CloseChan(s)
  \/ \E s \in SessionIds : Disconnect(s)
  \/ \E s \in SessionIds : CloseConn(s)

\* SendCommand after its first step
CallStep ==
  \/ \E c \in Callers : Register(c)
  \/ \E c \in Callers : LockSession(c)
  \/ \E c \in Callers : WriteOK(c)
  \/ \E c \in Callers : WriteFail(c)
  \/ \E c \in Callers : WriteFailCleanup(c)
  \/ \E c \in Callers : Receive(c)
  \/ \E c \in Callers : CtxDone(c)
  \/ \E c \in Callers : TimeoutCleanup(c)

\* ListSessions and Count, and writers queueing behind them
AdminStep ==
  \/ \E l \in Listers : ListBegin(l)
  \/ \E l \in Listers : ListPick(l)
  \/ \E l \in Listers : ListVisit(l)
  \/ \E l \in Listers : ListReturn(l)
  \/ \E l \in Listers : Count(l)
  \/ \E g \in LockSites : WriterWait(g)

\* The bridge, its sessions and its callers
Next ==
  \/ SessionStep
  \/ CallStep
  \/ \E c \in Callers : BeginFresh(c)

Spec == Init /\ [][Next]_vars

\* The steps of the call of c once it is inside SendCommand
CallProgress(c) ==
  \/ Register(c)
  \/ LockSession(c)
  \/ WriteOK(c)
  \/ WriteFail(c)
  \/ WriteFailCleanup(c)
  \/ Receive(c)
  \/ CtxDone(c)
  \/ TimeoutCleanup(c)

\* The bridge as the browser client drives it: every call runs under
\* context.WithTimeout, so ctx is Done after the overall deadline; a write
\* ends by the write deadline; and the scheduler runs every goroutine that
\* can take a step.
SpecClient == Spec /\ \A c \in Callers : WF_vars(CallProgress(c))

\* The bridge with callers whose commands all carry the same id
NextSameId ==
  \/ SessionStep
  \/ CallStep
  \/ \E c \in Callers : BeginSameId(c)

SpecSameId == Init /\ [][NextSameId]_vars

\* The bridge with callers that each address their own session, together with
\* the admin surface polling ListSessions and Count
NextAdmin ==
  \/ SessionStep
  \/ CallStep
  \/ \E c \in Callers : BeginOwn(c)
  \/ AdminStep

SpecAdmin == Init /\ [][NextAdmin]_vars

\* One session with its read loop, callers that address it by id or as the
\* active session, and the admin surface polling ListSessions and Count
NextLocks ==
  \/ ConnectUpTo(1)
  \/ \E s \in SessionIds : ReadMessage(s)
  \/ \E s \in SessionIds : ReadError(s)
  \/ \E s \in SessionIds : Seen(s)
  \/ \E s \in SessionIds : Deliver(s)
  \/ \E s \in SessionIds : Send(s)
  \/ \E s \in SessionIds : CloseChan(s)
  \/ \E s \in SessionIds : Disconnect(s)
  \/ \E s \in SessionIds : CloseConn(s)
  \/ CallStep
  \/ AdminStep
  \/ \E c \in Callers : Begin(c, c, {NoSession, 1})

\* The same under the Go scheduler: a transport write completes or hits its
\* write deadline, a goroutine that holds the read lock runs on, and a
\* goroutine waiting for a mutex gets it once it is free often enough
\* (sync.Mutex hands a starved waiter the lock, and a waiting writer of a
\* sync.RWMutex turns new readers away).
SpecLocks ==
  /\ Init
  /\ [][NextLocks]_vars
  /\ \A c \in Callers :
       /\ WF_vars(WriteOK(c) \/ WriteFail(c))
       /\ SF_vars(Register(c) \/ LockSession(c) \/ WriteFailCleanup(c)
                    \/ TimeoutCleanup(c))
  /\ \A s \in SessionIds : SF_vars(Seen(s) \/ Deliver(s) \/ Disconnect(s))
  /\ \A l \in Listers :
       /\ WF_vars(ListPick(l) \/ ListReturn(l))
       /\ SF_vars(ListVisit(l))

\* The registry on its own: connections come and go, their read loops run,
\* and nobody calls SendCommand, so every frame read is unsolicited.
InitRegistry ==
  /\ sessions = {}
  /\ activeID = NoSession
  /\ pending = [i \in CmdIds |-> NoChan]
  /\ lastID = 0
  /\ smu = [s \in RegistryIds |-> Unlocked]
  /\ bmuReaders = {}
  /\ wwait = NoWriter
  /\ rl = [s \in RegistryIds |-> IdleReader]
  /\ chans = [k \in Callers |-> NewChan]
  /\ call = [c \in Callers |-> IdleCall]
  /\ wire = [s \in RegistryIds |-> {}]
  /\ ls = [l \in Listers |-> IdleLister]
  /\ panicked = FALSE
  /\ cl = IdleClient

NextRegistry ==
  \/ ConnectUpTo(MaxRegistry)
  \/ \E s \in RegistryIds : ReadMessage(s)
  \/ \E s \in RegistryIds : ReadError(s)
  \/ \E s \in RegistryIds : Seen(s)
  \/ \E s \in RegistryIds : Deliver(s)
  \/ \E s \in RegistryIds : Disconnect(s)
  \/ \E s \in RegistryIds : CloseConn(s)

SpecRegistry == InitRegistry /\ [][NextRegistry]_vars

\* The bridge before anything has happened, for the specifications of the
\* parts that do not touch it
BridgeIdle ==
  /\ sessions = {}
  /\ activeID = NoSession
  /\ pending = [i \in CmdIds |-> NoChan]
  /\ lastID = 0
  /\ smu = [s \in SessionIds |-> Unlocked]
  /\ bmuReaders = {}
  /\ wwait = NoWriter
  /\ rl = [s \in SessionIds |-> IdleReader]
  /\ chans = [k \in Callers |-> NewChan]
  /\ call = [c \in Callers |-> IdleCall]
  /\ wire = [s \in SessionIds |-> {}]
  /\ ls = [l \in Listers |-> IdleLister]
  /\ panicked = FALSE

\* A Command goes over the wire and back
InitWire ==
  /\ BridgeIdle
  /\ \E c \in Commands :
       cl = [fn |-> "wire", pc |-> "start", cmd |-> c,
             frame |-> <<>>, got |-> c]

NextWire ==
  \/ SerializeCommand
  \/ ParseCommand

SpecWire == InitWire /\ [][NextWire]_vars

\* The actions derived from one element
InitActions ==
  /\ BridgeIdle
  /\ \E el \in VerbElements \cup LabelElements :
       cl = [fn |-> "actions", pc |-> "start", elements |-> <<el>>,
             out |-> <<>>]

NextActions == BuildActions

SpecActions == InitActions /\ [][NextActions]_vars

\* A guarded route, for the configured tokens "", "s" and "x" and requests
\* with and without the two headers
InitGuard ==
  /\ BridgeIdle
  /\ \E token \in {<<>>, <<"s">>, <<"x">>},
        a \in {<<>>, <<"Bearer ">>, <<"Bearer ", "s">>, <<"Bearer ", "x">>,
               <<"Bearer ", "s", " ">>, <<"bearer ", "s">>, <<"Basic ", "s">>,
               <<"s">>},
        x \in {<<>>, <<"s">>, <<"x">>, <<"S">>} :
       cl = [fn |-> "guard", pc |-> "start", token |-> token,
             r |-> [authorization |-> a, xAuthToken |-> x],
             out |-> [status |-> 0, body |-> "", next |-> FALSE]]

SpecGuard == InitGuard /\ [][ServeHTTP]_vars

\* One snapshot store and the calls made on it
InitStore == BridgeIdle /\ cl = NewStore

NextStore ==
  \/ \E snapshot \in StoreSnapshots : Put(snapshot)
  \/ \E id \in UUIDs \cup {"a", "b"} : Get(id)
  \/ Latest

SpecStore == InitStore /\ [][NextStore]_vars

\* The reduction of one page
InitReduce ==
  /\ BridgeIdle
  /\ \E raw \in RawPages, opts \in ReduceOptions :
       cl = [fn |-> "reduce", pc |-> "start", raw |-> raw, opts |-> opts,
             parsed |-> [elements |-> <<>>, text |-> <<>>],
             out |-> [id |-> "", url |-> "", title |-> "", text |-> <<>>,
                      elements |-> <<>>, actions |-> <<>>]]

SpecReduce == InitReduce /\ [][ReducePage]_vars

\* The selector synthesized for one node
InitSelector ==
  /\ BridgeIdle
  /\ \E n \in SelectorInputs :
       cl = [fn |-> "selector", pc |-> "start", node |-> n, out |-> <<>>]

SpecSelector == InitSelector /\ [][SynthesizeSelector]_vars

\* The client's work around one call, for every Response SendCommand can
\* return and every TargetInput a tool handler can be given; the request
\* context of a handler carries no Target.
InitHelpers ==
  /\ sessions = {}
  /\ activeID = NoSession
  /\ pending = [i \in CmdIds |-> NoChan]
  /\ lastID = 0
  /\ smu = [s \in SessionIds |-> Unlocked]
  /\ bmuReaders = {}
  /\ wwait = NoWriter
  /\ rl = [s \in SessionIds |-> IdleReader]
  /\ chans = [k \in Callers |-> NewChan]
  /\ call = [c \in Callers |-> IdleCall]
  /\ wire = [s \in SessionIds |-> {}]
  /\ ls = [l \in Listers |-> IdleLister]
  /\ panicked = FALSE
  /\ \/ \E op \in ClientOps, resp \in Responses :
          cl = [fn |-> "surface", pc |-> "returned", op |-> op, resp |-> resp,
                out |-> Passed]
     \/ \E t \in Targets :
          cl = [fn |-> "target", pc |-> "start", t |-> t, ctx |-> NoTarget,
                cmd |-> [sessionId |-> NoSession, tabId |-> 0]]

NextHelpers ==
  \/ SurfaceResponse
  \/ AttachTarget
  \/ BuildCommand

SpecHelpers == InitHelpers /\ [][NextHelpers]_vars

\* The registry with the admin surface forcing sessions out
NextDisconnect ==
  \/ NextRegistry
  \/ \E l \in Listers, id \in {NoSession} \cup RegistryIds :
       DisconnectSessionBegin(l, id)
  \/ \E l \in Listers : DisconnectSessionRemove(l)
  \/ \E l \in Listers : DisconnectSessionClose(l)

SpecDisconnect == InitRegistry /\ [][NextDisconnect]_vars

\* ------------------------------------------------------------- properties
\* the calls that have registered a slot and not yet returned
InFlight(c) ==
  call[c].pc \in {"lock_session", "writing", "write_failed", "wait",
                  "timeout_cleanup"}

\* the readLoop of s is inside deliver, holding the channel it removed
Delivering(s) == rl[s].pc \in {"send", "close"}

\* the step is SendCommand's first one, made by c
Begins(c) == call[c].pc = "idle" /\ call'[c].pc # "idle"

\* C1: at most one Response is ever sent to the channel of a call, and a
\* deliver that is about to send holds a channel that it took out of the
\* table itself: the table no longer has it and no other deliver holds it.
C1_AtMostOnceReply ==
  /\ \A c \in Callers : chans[c].sends <= 1
  /\ \A s \in SessionIds : Delivering(s) =>
       /\ \A i \in CmdIds : pending[i] # rl[s].ch
       /\ \A t \in SessionIds \ {s} : Delivering(t) => rl[t].ch # rl[s].ch

\* a Response was handed to a call and a second Response with the same id
\* has reached deliver
C1_Witness ==
  \E c \in Callers, s \in SessionIds :
    /\ chans[c].sends = 1
    /\ rl[s].pc = "deliver"
    /\ rl[s].frame.id = call[c].id

\* C2: a timeout and a delivery never both fire against one slot: a call
\* that returned the timeout/cancellation error is not one whose slot a
\* deliver removed and fulfilled by sending the Response to its channel.
C2_TimeoutExcludesDelivery ==
  \A c \in Callers : call[c].result = "timeout" => chans[c].sends = 0

\* C3: once ctx is Done the call leaves SendCommand only with the
\* timeout/cancellation error and with its id out of the table, and a call
\* that has returned that error has no entry in the table.
C3_TimeoutRemovesSlot ==
  /\ [](\A c \in Callers : call[c].result = "timeout" =>
          pending[call[c].id] = NoChan)
  /\ [][\A c \in Callers :
          (call[c].pc = "timeout_cleanup" /\ call'[c].pc # "timeout_cleanup") =>
            /\ call'[c].pc = "done"
            /\ call'[c].result = "timeout"
            /\ call'[c].result # "write_error"
            /\ pending'[call[c].id] = NoChan]_vars

\* a call whose command went out, that no Response ever answered, and that
\* returned the timeout error
C3_Witness ==
  \E c \in Callers :
    /\ call[c].result = "timeout"
    /\ chans[c].sends = 0
    /\ \A s \in SessionIds : rl[s].ch # c
    /\ \E s \in SessionIds : call[c].id \in wire[s]

\* C4: with callers using unique ids, no two ids share a slot, every entry of
\* the table is the channel of a call that registered it and has not
\* returned, and the table is empty once every call has returned.
C4_TableInvariant ==
  /\ \A i, j \in CmdIds : (pending[i] # NoChan /\ pending[i] = pending[j]) => i = j
  /\ \A i \in CmdIds : pending[i] # NoChan =>
       \E c \in Callers : InFlight(c) /\ call[c].id = i /\ call[c].ch = pending[i]
  /\ (\A c \in Callers : call[c].pc \in {"idle", "done"}) =>
       \A i \in CmdIds : pending[i] = NoChan

\* every call has returned, one by a reply, one by a timeout or a write error
C4_Witness ==
  /\ \A c \in Callers : call[c].pc = "done"
  /\ \E c \in Callers : call[c].result = "response"
  /\ \E c \in Callers : call[c].result \in {"timeout", "write_error"}

\* C5: a deliver step for an id that has no slot changes neither the table
\* nor the registry, sends to no channel, wakes no caller, does not panic, and
\* puts the read loop back at reading.
C5_DeliverWithoutSlotIsNoOp ==
  [][\A s \in SessionIds :
       (rl[s].pc = "deliver" /\ rl'[s] # rl[s]
          /\ pending[rl[s].frame.id] = NoChan) =>
         /\ pending' = pending
         /\ registryVars' = registryVars
         /\ chans' = chans
         /\ call' = call
         /\ panicked' = panicked
         /\ rl'[s].pc = "read"]_vars

\* a Response for a call that already timed out has reached deliver
C5_Witness ==
  \E c \in Callers, s \in SessionIds :
    /\ call[c].result = "timeout"
    /\ rl[s].pc = "deliver"
    /\ rl[s].frame.id = call[c].id
    /\ pending[call[c].id] = NoChan

\* C6: a SendCommand that starts while no session is connected returns the
\* "no active session" error in that step: nothing is written, no slot is
\* registered, no channel is touched, and it never reaches the wait.
C6_NoSessionFailsFast ==
  [][\A c \in Callers :
       (Begins(c) /\ sessions = {}) =>
         /\ call'[c].pc = "done"
         /\ call'[c].result = "no_session"
         /\ wire' = wire
         /\ pending' = pending
         /\ chans' = chans]_vars

\* a call made before any session ever connected has returned the error
C6_Witness ==
  \E c \in Callers :
    /\ call[c].result = "no_session"
    /\ lastID = 0
    /\ \A s \in SessionIds : wire[s] = {}

C8_PerIdMatching ==
  \A c \in Callers :
    /\ call[c].result = "response" => call[c].resp.id = call[c].id
    /\ InFlight(c) =>
         \A k \in 1..Len(chans[c].buf) : chans[c].buf[k].id = call[c].id

\* two commands went out on one session; one call has its Response while the
\* other is still waiting
C8_Witness ==
  \E s \in SessionIds, c, d \in Callers :
    /\ c # d
    /\ {call[c].id, call[d].id} \subseteq wire[s]
    /\ call[c].result = "response"
    /\ call[d].pc = "wait"
    /\ chans[d].sends = 0

\* C9: the Response to a call on session B is never kept from its caller by
\* a call on another session A: no state has B's Response read and waiting
\* in deliver for the bridge lock while that lock is held by a ListSessions
\* that waits for the mutex of A, held by a caller whose write to A is in
\* progress.
C9_SessionsIndependent ==
  \A a, b \in Callers, l \in Listers :
    ~ /\ a # b
      /\ call[a].pc = "writing"
      /\ call[b].pc = "wait"
      /\ call[a].sess # call[b].sess
      /\ rl[call[b].sess].pc = "deliver"
      /\ rl[call[b].sess].frame.id = call[b].id
      /\ pending[call[b].id] = call[b].ch
      /\ ls[l].pc = "iter"
      /\ ls[l].cur = call[a].sess
      /\ smu[call[a].sess] = a

\* C10: at most one caller is inside WriteMessage on a session, and it is
\* the holder of that session's mutex.
C10_OneWriterPerSession ==
  \A s \in SessionIds :
    /\ Cardinality({c \in Callers : call[c].pc = "writing" /\ call[c].sess = s}) <= 1
    /\ \A c \in Callers : (call[c].pc = "writing" /\ call[c].sess = s) => smu[s] = c

\* one caller is writing to a session while another waits for its mutex
C10_Witness ==
  \E c, d \in Callers :
    /\ c # d
    /\ call[c].pc = "writing"
    /\ call[d].pc = "lock_session"
    /\ call[d].sess = call[c].sess

\* C11: the active id is empty or a key of the session map.
C11_ActiveIsRegistered ==
  activeID = NoSession \/ activeID \in sessions

\* the session that was active has disconnected and others are still there
C11_Witness ==
  /\ lastID = MaxRegistry
  /\ rl[lastID].pc \in {"closing", "gone"}
  /\ sessions # {}
  /\ activeID \in sessions

\* C12: the step that registers a session gives it an id that is not in the
\* registry and never was, puts it in the session map and makes it the
\* active one, whichever session was active before.
C12_LastConnectedWins ==
  [][lastID' # lastID =>
       /\ lastID' \notin sessions
       /\ lastID' \notin 1..lastID
       /\ rl[lastID'].pc = "none"
       /\ sessions' = sessions \cup {lastID'}
       /\ activeID' = lastID']_vars

\* a session connected while an older one was registered, and it is active
C12_Witness ==
  /\ lastID >= 2
  /\ activeID = lastID
  /\ \E s \in sessions : s < lastID
  /\ rl[lastID].pc = "read"

\* C13: the step that removes a session takes it out of the map; when it was
\* the active one, active becomes a session that is still connected, and is
\* empty exactly when none is; when it was not, active stays as it was.
C13_DisconnectReassigns ==
  [][\A s \in DOMAIN rl :
       (rl[s].pc = "disc" /\ rl'[s].pc # "disc") =>
         /\ sessions' = sessions \ {s}
         /\ activeID' # s
         /\ activeID = s =>
              /\ (sessions' # {} => activeID' \in sessions')
              /\ (sessions' = {} <=> activeID' = NoSession)
         /\ activeID # s => activeID' = activeID]_vars

\* A then B connected, B disconnected, and A is the active session
C13_Witness ==
  /\ lastID = 2
  /\ sessions = {1}
  /\ rl[2].pc \in {"closing", "gone"}
  /\ activeID = 1

\* C14: when the active session is about to be removed, the session that
\* becomes active is determined: the reassignment has one outcome.
C14_ReassignDeterministic ==
  \A s \in DOMAIN rl :
    (rl[s].pc = "disc" /\ activeID = s) =>
      Cardinality(ReassignActive(sessions \ {s})) = 1

ListedIds(l) == {info.id : info \in ls[l].out}

\* a step of ListSessions by l
ListStep(l) == ls'[l] # ls[l] /\ (ls[l].pc = "iter" \/ ls'[l].pc = "iter")

\* C16: while ListSessions runs the session map is the one it started from,
\* every entry collected is marked active exactly when its id is the active
\* id; what it returns lists exactly the keys of the map, with one active
\* entry when the map is non-empty and none when it is empty; and its steps
\* change neither the registry nor the active id nor the pending table.
C16_ListIsSnapshot ==
  /\ [](\A l \in Listers : ls[l].pc = "iter" =>
          /\ ls[l].todo \cup ListedIds(l) = sessions
          /\ ls[l].todo \cap ListedIds(l) = {}
          /\ \A info \in ls[l].out : info.active <=> info.id = activeID)
  /\ [][\A l \in Listers :
          /\ ListStep(l) =>
               /\ registryVars' = registryVars
               /\ pending' = pending
               /\ callVars' = callVars
          /\ (ls[l].pc = "iter" /\ ls'[l].pc = "idle") =>
               /\ ListedIds(l) = sessions
               /\ Cardinality(ls[l].out) = Cardinality(sessions)
               /\ Cardinality({info \in ls[l].out : info.active})
                    = IF sessions = {} THEN 0 ELSE 1]_vars

\* ListSessions has collected two sessions and is about to return while a
\* writer of the registry or the table waits for it
C16_Witness ==
  \E l \in Listers :
    /\ ls[l].pc = "iter"
    /\ ls[l].todo = {}
    /\ Cardinality(ls[l].out) = 2
    /\ wwait # NoWriter

\* C17: DisconnectSession resolves a non-empty id to the session of that id
\* and the empty id to the active session; when that is no live session it
\* returns an error in that step and changes nothing; when it returns nil the
\* session is out of the registry; and the active id is always empty or a
\* key of the session map.
C17_DisconnectSession ==
  /\ [](activeID = NoSession \/ activeID \in sessions)
  /\ [](\A l \in Listers : ls[l].err = "nil" => ls[l].cur \notin sessions)
  /\ [][\A l \in Listers :
          (ls[l].pc = "idle" /\ ls'[l] # ls[l]) =>
            LET id == ls'[l].req
                live == IF id = NoSession THEN activeID \in sessions
                                          ELSE id \in sessions
            IN /\ live => /\ ls'[l].pc = "remove"
                          /\ ls'[l].cur = IF id = NoSession THEN activeID ELSE id
               /\ ~live => /\ ls'[l].pc = "idle"
                           /\ ls'[l].err = "no_session"
               /\ registryVars' = registryVars
               /\ rl' = rl]_vars

\* the active session was forced out by DisconnectSession("") while another
\* session stays connected
C17_Witness ==
  \E l \in Listers :
    /\ ls[l].err = "nil"
    /\ ls[l].req = NoSession
    /\ ls[l].cur # NoSession
    /\ sessions # {}
    /\ rl[ls[l].cur].pc = "read"

\* C18: every call that has entered SendCommand under the client's deadline
\* returns: with a Response, a write error, a routing error or a timeout.
C18_CallsTerminate ==
  \A c \in Callers :
    (call[c].pc # "idle") ~>
      (call[c].pc = "done" /\ call[c].result \in
         {"response", "write_error", "no_session", "marshal_error", "timeout"})

\* a command went out on the only session, the session disconnected with no
\* reply sent, and the call returned the timeout error
C18_Witness ==
  \E c \in Callers :
    /\ lastID = 1
    /\ rl[1].pc = "gone"
    /\ call[c].id \in wire[1]
    /\ chans[c].sends = 0
    /\ call[c].result = "timeout"

\* the strings an error message is put together from
Pieces(msg) == {msg[k] : k \in 1..Len(msg)}

\* C19: for every operation of the client, Snapshot included, a Response
\* with ok = false gives the caller an error whose message carries the error
\* string when there is one and the error code when there is one, and is the
\* generic message when there is neither; a Response with ok = true gives no
\* such error.
C19_RemoteFailureSurfaced ==
  (cl.fn = "surface" /\ cl.pc = "done") =>
    /\ cl.resp.ok => cl.out.kind = "passed"
    /\ ~cl.resp.ok =>
         /\ cl.out.kind = "remote_failure"
         /\ cl.resp.error # "" => cl.resp.error \in Pieces(cl.out.msg)
         /\ cl.resp.errorCode # "" => cl.resp.errorCode \in Pieces(cl.out.msg)
         /\ (cl.resp.error = "" /\ cl.resp.errorCode = "")
              => cl.out.msg = GenericFailure

\* C20: a handler's Target is attached to the context exactly when its
\* session id is non-empty or its tab id is non-zero; the command built under
\* a context that carries a Target has that Target's session id and tab id,
\* and the one built under a context that carries none has neither; and
\* TargetFromContext gives back every non-empty Target that WithTarget
\* attached.
C20_TargetRoundTrip ==
  (cl.fn = "target" /\ cl.pc # "start") =>
    LET empty == cl.t.sessionId = NoSession /\ cl.t.tabId = 0 IN
    /\ cl.ctx.attached <=> ~empty
    /\ ~empty => TargetFromContext(cl.ctx) = [target |-> cl.t, ok |-> TRUE]
    /\ empty => ~TargetFromContext(cl.ctx).ok
    /\ cl.pc = "built" =>
         /\ ~empty => cl.cmd = [sessionId |-> cl.t.sessionId,
                                tabId |-> cl.t.tabId]
         /\ empty => cl.cmd = [sessionId |-> NoSession, tabId |-> 0]

\* a command was built for a Target that names a tab and no session
C20_Witness ==
  /\ cl.fn = "target"
  /\ cl.pc = "built"
  /\ cl.t.sessionId = NoSession
  /\ cl.t.tabId # 0
  /\ cl.cmd.tabId = cl.t.tabId

\* C21: a Command that was serialized and parsed again equals the Command
\* that was sent, field for field, also when it has no payload, no session
\* id or no tab id.
C21_CommandRoundTrip ==
  (cl.fn = "wire" /\ cl.pc = "parsed") => cl.got = cl.cmd

\* the verb the table gives for a tag and an input type
VerbTable(tag, type) ==
  IF tag = "a" THEN "open"
  ELSE IF tag = "button" THEN "click"
  ELSE IF tag = "input" /\ type \in {"submit", "button"} THEN "click"
  ELSE IF tag = "input" /\ type = "checkbox" THEN "toggle"
  ELSE IF tag = "input" /\ type = "radio" THEN "select"
  ELSE IF tag = "input" THEN "type"
  ELSE IF tag = "select" THEN "select"
  ELSE IF tag = "textarea" THEN "type"
  ELSE IF tag \in {"div", "span"} THEN "click"
  ELSE "none"

\* the input type of an element as one lower-case word, "" when it has none
TypeWord(el) == IF el.inputType = <<>> THEN "" ELSE LowerAtom(el.inputType[1])

\* C26: an element with a non-empty selector whose tag is in the table
\* yields one Action with the verb of the table and the element's selector;
\* an element whose tag is not in the table, or whose selector is empty,
\* yields no Action.
C26_VerbTable ==
  (cl.fn = "actions" /\ cl.pc = "done") =>
    LET el == cl.elements[1]
        v  == VerbTable(el.tag, TypeWord(el)) IN
    IF v = "none" \/ el.selector = <<>>
      THEN cl.out = <<>>
      ELSE /\ Len(cl.out) = 1
           /\ cl.out[1].verb = v
           /\ cl.out[1].selector = el.selector

\* a checkbox input with a selector got the verb toggle
C26_Witness ==
  /\ cl.fn = "actions"
  /\ cl.pc = "done"
  /\ cl.elements[1].tag = "input"
  /\ cl.elements[1].inputType = <<"checkbox">>
  /\ Len(cl.out) = 1
  /\ cl.out[1].verb = "toggle"

\* the fields a label is taken from, as the element has them
LabelFields(el) ==
  <<el.text, el.ariaLabel, el.title, el.alt, el.value, el.placeholder,
    el.name, el.context>>

\* the hint by the rule href, then input type, then name
HintRule(el) ==
  IF el.href # <<>> THEN <<"href=">> \o el.href
  ELSE IF el.inputType # <<>> THEN <<"type=">> \o el.inputType
  ELSE IF el.name # <<>> THEN <<"name=">> \o el.name
  ELSE <<>>

\* C27 as stated: the label is the first non-empty value among text,
\* ariaLabel, title, alt, value, placeholder, name, context (empty when all
\* are empty), and the hint is href=, else type=, else name=, else empty.
C27_LabelFirstNonEmpty ==
  (cl.fn = "actions" /\ cl.pc = "done" /\ Len(cl.out) = 1) =>
    LET el == cl.elements[1]
        fs == LabelFields(el)
        nonEmpty == {k \in 1..Len(fs) : fs[k] # <<>>} IN
    /\ nonEmpty = {} => cl.out[1].label = <<>>
    /\ nonEmpty # {} =>
         cl.out[1].label = fs[CHOOSE k \in nonEmpty : \A j \in nonEmpty : k <= j]
    /\ cl.out[1].hint = HintRule(el)

\* C27 amended: the label is the first of those values that is non-empty
\* once the white space around it is trimmed, with that white space trimmed
\* (empty when there is none); the hint is as stated.
C27_LabelFirstNonBlank ==
  (cl.fn = "actions" /\ cl.pc = "done" /\ Len(cl.out) = 1) =>
    LET el == cl.elements[1]
        fs == LabelFields(el)
        nonBlank == {k \in 1..Len(fs) : TrimSpace(fs[k]) # <<>>} IN
    /\ nonBlank = {} => cl.out[1].label = <<>>
    /\ nonBlank # {} =>
         cl.out[1].label =
           TrimSpace(fs[CHOOSE k \in nonBlank : \A j \in nonBlank : k <= j])
    /\ cl.out[1].hint = HintRule(el)

\* an element whose text and ariaLabel are blank got its title, trimmed, as
\* the label and its input type as the hint
C27_Witness ==
  /\ cl.fn = "actions"
  /\ cl.pc = "done"
  /\ Len(cl.out) = 1
  /\ cl.elements[1].text = <<" ">>
  /\ cl.elements[1].ariaLabel = <<" ">>
  /\ cl.elements[1].title = <<"i", " ">>
  /\ cl.out[1].label = <<"i">>
  /\ cl.elements[1].href = <<>>
  /\ cl.out[1].hint = <<"type=", "text">>

\* the rules of selector synthesis in their order: whether each applies to
\* the node and the selector it gives
SelectorRules(n) ==
  LET a == n.attrs
      attrRule(k) == [applies |-> a[k] # <<>>,
                      sel |-> <<n.tag, "[", k, "=\"">> \o a[k] \o <<"\"]">>]
  IN <<[applies |-> a["id"] # <<>>, sel |-> <<"#">> \o a["id"]],
       [applies |-> a["data-testid"] # <<>>,
        sel |-> <<n.tag, "[data-testid=\"">> \o a["data-testid"] \o <<"\"]">>],
       attrRule("data-test"), attrRule("data-qa"), attrRule("data-automation"),
       attrRule("data-cy"), attrRule("data-automation-id"),
       [applies |-> a["name"] # <<>>,
        sel |-> <<n.tag, "[name=\"">> \o a["name"] \o <<"\"]">>],
       [applies |-> a["aria-label"] # <<>>,
        sel |-> <<n.tag, "[aria-label=\"">> \o a["aria-label"] \o <<"\"]">>],
       [applies |-> Fields(a["class"]) # <<>>,
        sel |-> IF Fields(a["class"]) # <<>>
                  THEN <<n.tag, ".">> \o Fields(a["class"])[1] ELSE <<>>],
       [applies |-> n.index > 0,
        sel |-> <<n.tag, ":nth-child(">> \o itoa(n.index) \o <<")">>],
       [applies |-> n.path # <<>>,
        sel |-> Join([k \in 1..Len(n.path) |-> <<n.path[k]>>], <<" > ">>)],
       [applies |-> TRUE, sel |-> <<n.tag>>]>>

\* C25: the selector of a node is the one given by the first rule that
\* applies, in the order id, data-testid, data-test, data-qa,
\* data-automation, data-cy, data-automation-id, name, aria-label, first
\* class token, nth-child position, ancestor path, bare tag; a node with an
\* id gets "#" and the id whatever its class.
C25_SelectorPrecedence ==
  (cl.fn = "selector" /\ cl.pc = "done") =>
    LET rules == SelectorRules(cl.node)
        first == CHOOSE k \in 1..Len(rules) :
                   rules[k].applies /\ \A j \in 1..(k - 1) : ~rules[j].applies
    IN /\ cl.out = rules[first].sel
       /\ cl.node.attrs["id"] # <<>> => cl.out = <<"#">> \o cl.node.attrs["id"]

\* a node with an id and a class got the id selector
C25_Witness ==
  /\ cl.fn = "selector"
  /\ cl.pc = "done"
  /\ cl.node.attrs["id"] = <<"x">>
  /\ cl.node.attrs["class"] = <<" ", "y", " ", "z">>
  /\ cl.out = <<"#", "x">>

\* every node of the tree below n, n first, in document order
RECURSIVE Descendants(_), DescendantsOf(_)
Descendants(n) == <<n>> \o DescendantsOf(n.kids)

DescendantsOf(kids) ==
  IF kids = <<>> THEN <<>>
  ELSE Descendants(Head(kids)) \o DescendantsOf(Tail(kids))

\* the nodes of the page's html
PageNodesOf(raw) ==
  IF raw.html.present THEN Descendants(Document(raw.html.body)) ELSE <<>>

\* the actionable test as stated: a tag that always is, or a div or span
\* whose role is exactly "button" or "link"
StatedActionable(n) ==
  /\ n.type = "element"
  /\ \/ n.data \in {"a", "button", "input", "select", "textarea"}
     \/ /\ n.data \in {"div", "span"}
        /\ n.attrs["role"] \in {<<"button">>, <<"link">>}

\* the retention rule as stated
StatedRetained(n) ==
  \/ nodeText(n) # <<>>
  \/ n.attrs["aria-label"] # <<>>
  \/ n.attrs["name"] # <<>>
  \/ n.attrs["id"] # <<>>

Reduced == cl.fn = "reduce" /\ cl.pc = "done"

NoDoubleSpace(t) == \A k \in 1..(Len(t) - 1) : ~(t[k] = " " /\ t[k + 1] = " ")

\* C23: with maxText = m > 0 the snapshot text is at most m characters
\* long and holds no two spaces in a row and no other white space, whether
\* it came from the html or from the caller.
C23_TextBound ==
  (Reduced /\ cl.opts.maxText > 0) =>
    /\ Len(cl.out.text) <= cl.opts.maxText
    /\ NoDoubleSpace(cl.out.text)
    /\ \A k \in 1..Len(cl.out.text) : cl.out.text[k] \in Space => cl.out.text[k] = " "

\* a caller-supplied text with a run of white space was collapsed and cut
C23_Witness ==
  /\ Reduced
  /\ cl.opts.maxText = 3
  /\ cl.raw.text = <<" ", "c", " ", "\n", "t">>
  /\ cl.out.text = <<"c", " ", "t">>

\* C24 as stated: when html is present and yields at least one element, the
\* snapshot's text and elements are the ones derived from the html.
C24_HTMLWins ==
  (Reduced /\ cl.raw.html.present /\ cl.parsed.elements # <<>>) =>
    LET r == NewReducer(cl.opts)
        text == compactWhitespace(cl.parsed.text)
    IN /\ cl.out.elements
            = SubSeq(cl.parsed.elements, 1,
                     IF Len(cl.parsed.elements) > r.maxElements
                       THEN r.maxElements ELSE Len(cl.parsed.elements))
       /\ cl.out.text
            = SubSeq(text, 1, IF Len(text) > r.maxText THEN r.maxText
                               ELSE Len(text))

\* C28: every element derived from the html belongs to a node that passes
\* the actionable test (a, button, input, select, textarea, or a div or
\* span with role exactly "button" or "link") and has a non-empty text,
\* ariaLabel, name or id.
C28_ActionableAndRetained ==
  Reduced =>
    \A k \in 1..Len(cl.parsed.elements) :
      LET el == cl.parsed.elements[k] IN
      /\ el.text # <<>> \/ el.ariaLabel # <<>> \/ el.name # <<>> \/ el.id # <<>>
      /\ \E j \in 1..Len(PageNodesOf(cl.raw)) :
           LET n == PageNodesOf(cl.raw)[j] IN
           /\ StatedActionable(n)
           /\ StatedRetained(n)
           /\ el.tag = n.data
           /\ el.text = nodeText(n)
           /\ el.id = n.attrs["id"]
           /\ el.ariaLabel = n.attrs["aria-label"]
           /\ el.name = n.attrs["name"]
           /\ el.placeholder = n.attrs["placeholder"]

\* a page with an input that has only a placeholder, a div with role
\* "Button" and a link gave the link alone
C28_Witness ==
  /\ Reduced
  /\ cl.raw.html.present
  /\ Len(cl.raw.html.body) = 3
  /\ \E j \in 1..3 : cl.raw.html.body[j].data = "input"
  /\ \E j \in 1..3 : cl.raw.html.body[j].attrs["role"] = <<"Button">>
  /\ Len(cl.parsed.elements) = 1
  /\ cl.parsed.elements[1].tag = "a"
  /\ cl.opts.maxElements = 2

\* the last Put under id, 0 if there is none
LastPut(id) ==
  IF \E k \in 1..Len(cl.puts) : cl.puts[k].stored.id = id
    THEN CHOOSE k \in 1..Len(cl.puts) :
           /\ cl.puts[k].stored.id = id
           /\ \A j \in (k + 1)..Len(cl.puts) : cl.puts[j].stored.id # id
    ELSE 0

\* C29: a Put of a snapshot without id stores it under a fresh id, set in
\* the stored copy, and returns that id; Get(id) returns the snapshot most
\* recently Put under id, or not-found; Latest returns the snapshot of the
\* most recent Put, or not-found on a store with no Put; the latest
\* pointer, when non-empty, names a stored snapshot.
C29_Store ==
  cl.fn = "store" =>
    /\ \A k \in 1..Len(cl.puts) :
         LET p == cl.puts[k] IN
         /\ p.stored = [p.given EXCEPT !.id = p.stored.id]
         /\ p.stored.id # ""
         /\ p.given.id # "" => p.stored.id = p.given.id
         /\ p.given.id = "" =>
              \A j \in 1..(k - 1) : cl.puts[j].stored.id # p.stored.id
    /\ cl.ret.op = "put" =>
         /\ cl.ret.id = cl.puts[Len(cl.puts)].stored.id
         /\ cl.ret.id \in DOMAIN cl.items
         /\ cl.items[cl.ret.id] = cl.puts[Len(cl.puts)].stored
    /\ cl.ret.op = "get" =>
         IF LastPut(cl.ret.id) = 0 THEN ~cl.ret.ok
         ELSE cl.ret.ok /\ cl.ret.snap = cl.puts[LastPut(cl.ret.id)].stored
    /\ cl.ret.op = "latest" =>
         IF cl.puts = <<>> THEN ~cl.ret.ok
         ELSE cl.ret.ok /\ cl.ret.snap = cl.puts[Len(cl.puts)].stored
    /\ cl.latest # "" => cl.latest \in DOMAIN cl.items

\* after a Put without id, a Put under "a" and a second Put under "a",
\* Latest returned the second one
C29_Witness ==
  /\ cl.fn = "store"
  /\ Len(cl.puts) = 3
  /\ cl.puts[1].given.id = ""
  /\ cl.puts[2].given.id = "a"
  /\ cl.puts[3].given.id = "a"
  /\ cl.puts[2].given.title # cl.puts[3].given.title
  /\ cl.ret.op = "latest"
  /\ cl.ret.ok
  /\ cl.ret.snap = cl.puts[3].stored

\* the call of c is about to write, is writing, or has written and waits
\* with its deadline not passed
AwaitsReply(c) == call[c].pc \in {"lock_session", "writing", "wait"}

\* a deliver has taken the slot of c out of the table to send to its channel
ReplyTaken(c) ==
  \/ chans[call[c].ch].sends > 0
  \/ \E s \in SessionIds : Delivering(s) /\ rl[s].ch = call[c].ch

\* C30: from before the write of a command begins until its caller stops
\* waiting, the slot of the command's id is in the table unless a deliver
\* has already taken it; and a deliver step that handles a Response for that
\* id in this span while the slot is there takes the caller's channel to
\* send on, and does not drop the Response.
C30_RegisterBeforeTransmit ==
  /\ [](\A c \in Callers :
          AwaitsReply(c) =>
            pending[call[c].id] = call[c].ch \/ ReplyTaken(c))
  /\ [][\A s \in SessionIds, c \in Callers :
          (/\ rl[s].pc = "deliver"
           /\ rl'[s] # rl[s]
           /\ rl[s].frame.id = call[c].id
           /\ AwaitsReply(c)
           /\ ~ReplyTaken(c)) =>
            /\ rl'[s].pc = "send"
            /\ rl'[s].ch = call[c].ch
            /\ rl'[s].ch # NoChan]_vars

\* a Response for a command was taken for delivery while the command's
\* write was still under way
C30_Witness ==
  \E c \in Callers, s \in SessionIds :
    /\ call[c].pc = "writing"
    /\ rl[s].pc = "send"
    /\ rl[s].frame.id = call[c].id
    /\ rl[s].ch = call[c].ch
    /\ pending[call[c].id] = NoChan

\* C31: when the write of the command frame fails, the call takes nothing
\* from its channel, removes its slot, and returns the write error; neither
\* step touches the session registry or the active pointer, and a call that
\* returned the write error has no slot in the table.
C31_WriteFailure ==
  /\ [](\A c \in Callers :
          call[c].result = "write_error" => pending[call[c].id] = NoChan)
  /\ [][\A c \in Callers :
          /\ (call[c].pc = "writing" /\ call'[c].pc = "write_failed") =>
               /\ pending' = pending
               /\ chans' = chans
               /\ <<sessions, activeID, lastID>>' = <<sessions, activeID, lastID>>
          /\ (call[c].pc = "write_failed" /\ call'[c] # call[c]) =>
               /\ call'[c].pc = "done"
               /\ call'[c].result = "write_error"
               /\ call'[c].resp = NoResponse
               /\ pending'[call[c].id] = NoChan
               /\ \A i \in CmdIds \ {call[c].id} : pending'[i] = pending[i]
               /\ chans' = chans
               /\ <<sessions, activeID, lastID>>' = <<sessions, activeID, lastID>>]_vars

\* a call returned the write error while its session is still registered
\* and active, and the other call is still waiting on its own slot
C31_Witness ==
  \E c, d \in Callers :
    /\ call[c].result = "write_error"
    /\ activeID \in sessions
    /\ call[d].pc = "wait"
    /\ pending[call[d].id] = call[d].ch

\* C32: the bridge lock is never held by a goroutine that waits behind
\* transport I/O: no ListSessions holds the read lock while it waits for the
\* mutex of a session whose holder is inside WriteMessage.
C32_LockNeverAcrossIO ==
  \A l \in Listers, c \in Callers :
    ~ /\ l \in bmuReaders
      /\ ls[l].pc = "iter"
      /\ ls[l].cur # NoSession
      /\ smu[ls[l].cur] = c
      /\ call[c].pc = "writing"

\* C33: a caller waiting on a command sent to session A is fulfilled only by
\* a Response read from A: no read loop of another session takes the
\* caller's channel out of the table to send on it.
C33_ReplyFromOwnSession ==
  \A s \in SessionIds, c \in Callers :
    (/\ call[c].pc \in {"lock_session", "writing", "wait"}
     /\ rl[s].pc = "send"
     /\ rl[s].ch = call[c].ch) => call[c].sess = s

\* C34: also when two concurrent calls carry the same command id, the slot
\* a call registered stays its own until a deliver takes it or the call
\* itself removes it: no other call's registration replaces it and no other
\* call's cleanup removes it.
C34_OwnSlotKept ==
  \A c \in Callers :
    (AwaitsReply(c) /\ ~ReplyTaken(c)) => pending[call[c].id] = call[c].ch

\* C35: the active pointer is empty exactly when the session map is empty,
\* and a SendCommand that names no session fails with "no active session"
\* only when no session is registered.
C35_ActiveWhileConnected ==
  /\ [](activeID = NoSession <=> sessions = {})
  /\ [][\A c \in Callers :
          (/\ Begins(c)
           /\ call'[c].target = NoSession
           /\ call'[c].result = "no_session") => sessions = {}]_vars

\* the session connected last has gone, the first one is active again, and
\* a command that names no session was resolved to it
C35_Witness ==
  \E c \in Callers :
    /\ lastID = 2
    /\ sessions = {1}
    /\ activeID = 1
    /\ call[c].pc = "register"
    /\ call[c].target = NoSession
    /\ call[c].sess = 1

\* the call of c stands at a Lock() of the bridge lock or of its session
CallAtLock(c) ==
  call[c].pc \in {"register", "lock_session", "write_failed", "timeout_cleanup"}

\* the read loop of s stands at a Lock() of its session or of the bridge
ReaderAtLock(s) == rl[s].pc \in {"seen", "deliver", "disc"}

C37_DeliverNeverBlocks ==
  /\ ~panicked
  /\ \A c \in Callers :
       /\ chans[c].sends <= 1
       /\ Len(chans[c].buf) <= 1
       /\ chans[c].closed => chans[c].sends = 1
  /\ \A s \in SessionIds :
       /\ rl[s].pc = "send" =>
            /\ rl[s].ch # NoChan
            /\ ~chans[rl[s].ch].closed
            /\ chans[rl[s].ch].sends = 0
            /\ Len(chans[rl[s].ch].buf) < ChanCap
            /\ \A i \in CmdIds : pending[i] # rl[s].ch
            /\ \A t \in SessionIds \ {s} :
                 rl[t].pc \in {"send", "close"} => rl[t].ch # rl[s].ch
       /\ rl[s].pc = "close" =>
            /\ ~chans[rl[s].ch].closed
            /\ chans[rl[s].ch].sends = 1

\* a call returned the timeout error and will never read, and the deliver
\* that had taken its slot has sent the Response and closed the channel
C37_Witness ==
  \E c \in Callers :
    /\ call[c].result = "timeout"
    /\ chans[c].sends = 1
    /\ Len(chans[c].buf) = 1
    /\ chans[c].closed
    /\ \A s \in SessionIds : rl[s].ch # c

\* C38: the disconnect of a session changes neither the table nor any
\* channel nor any call; and while a call waits for the reply to a command
\* written to a session that has disconnected, its slot stays in the table
\* and the call leaves its wait only because its own ctx is Done.
C38_DisconnectLeavesSlots ==
  [][\A s \in SessionIds :
       /\ (rl[s].pc \in {"disc", "closing"} /\ rl'[s] # rl[s]) =>
            /\ pending' = pending
            /\ chans' = chans
            /\ call' = call
       /\ \A c \in Callers :
            (/\ call[c].pc = "wait"
             /\ call[c].sess = s
             /\ call[c].id \in wire[s]
             /\ rl[s].pc \in {"closing", "gone"}
             /\ pending[call[c].id] = call[c].ch) =>
              /\ pending'[call[c].id] = call[c].ch
              /\ call'[c] # call[c] => call'[c].pc = "timeout_cleanup"]_vars

\* the beginnings of the selectors given by the rules before the ancestor
\* path and the bare tag
SelectorHeads ==
  {"[data-testid=\"", "[", "[name=\"", "[aria-label=\"", ".", ":nth-child("}

\* C39: the actions follow the snapshot's elements in their order, at most
\* one for each, so there are no more actions than elements; every element
\* derived from the html has a selector given by a rule before the ancestor
\* path and the bare tag, and a verb, so a snapshot with html-derived
\* elements has one action for each element, with that element's selector.
C39_ActionsMirrorElements ==
  Reduced =>
    LET els == cl.out.elements
        acts == cl.out.actions
    IN /\ Len(acts) <= Len(els)
       /\ \E f \in [1..Len(acts) -> 1..Len(els)] :
            /\ \A i, j \in 1..Len(acts) : i < j => f[i] < f[j]
            /\ \A i \in 1..Len(acts) : acts[i].selector = els[f[i]].selector
       /\ \A k \in 1..Len(cl.parsed.elements) :
            LET el == cl.parsed.elements[k] IN
            \/ el.selector[1] = "#" /\ Len(el.selector) = 2
            \/ /\ Len(el.selector) >= 2
               /\ el.selector[1] = el.tag
               /\ el.selector[2] \in SelectorHeads
       /\ (cl.raw.html.present /\ cl.raw.elements = <<>>
             /\ cl.parsed.elements # <<>>) =>
            /\ Len(acts) = Len(els)
            /\ \A i \in 1..Len(els) :
                 /\ acts[i].selector = els[i].selector
                 /\ acts[i].selector # <<>>
                 /\ acts[i].verb # ""

\* a snapshot of two html-derived elements, the second with an nth-child
\* selector, has their two actions
C39_Witness ==
  /\ Reduced
  /\ cl.raw.html.present
  /\ cl.raw.elements = <<>>
  /\ Len(cl.raw.html.body) = 3
  /\ Len(cl.parsed.elements) = 2
  /\ Len(cl.out.elements) = 2
  /\ Len(cl.out.actions) = 2
  /\ cl.out.elements[2].selector[2] = ":nth-child("
  /\ cl.out.actions[2].selector = cl.out.elements[2].selector

\* C40: the guarded handler is called only when the configured token is
\* non-empty and the value the request presents, after "Bearer " or in
\* X-Auth-Token, equals it exactly; every other request is answered 401,
\* and with an empty configured token every request is, whether or not it
\* presents a token.
C40_TokenGuardFailsClosed ==
  (cl.fn = "guard" /\ cl.pc = "done") =>
    LET bearer == cl.r.authorization # <<>> /\ cl.r.authorization[1] = "Bearer "
    IN /\ cl.out.next =>
            /\ cl.token # <<>>
            /\ \/ bearer /\ Tail(cl.r.authorization) = cl.token
               \/ ~bearer /\ cl.r.xAuthToken = cl.token
       /\ ~cl.out.next => cl.out.status = 401
       /\ cl.token = <<>> => ~cl.out.next /\ cl.out.status = 401

\* with no token configured a request that presents none was rejected
C40_Witness ==
  /\ cl.fn = "guard"
  /\ cl.pc = "done"
  /\ cl.token = <<>>
  /\ cl.r.authorization = <<>>
  /\ cl.r.xAuthToken = <<>>
  /\ cl.out.status = 401
  /\ ~cl.out.next
====
